---- MODULE Spec2Model ----
(***************************************************************************)
(* Model of the packet analysis and flow-aggregation pipeline of           *)
(* tickertinker (src-tauri/src/network_monitor): the capture loop          *)
(* parse_packets, the aggregate update modify_or_insert_in_map, the        *)
(* classification helpers of manage_packets.rs and the reverse-DNS         *)
(* resolution tasks reverse_dns_lookup with their shared, lock-guarded     *)
(* ledger (AddressesResolutionState) and newly-resolved-hosts buffer.      *)
(***************************************************************************)
EXTENDS Integers, Sequences, FiniteSets, TLC

(***************************************************************************)
(* Bounds of the model                                                     *)
(***************************************************************************)
\* number of packets the capture source delivers in one session
MaxPackets == 2
\* largest value the capture library's drop counter reports
MaxDropped == 1
\* number of one-second ticks of a live capture
MaxTicks == 1
\* number of packets of a session whose packets all belong to one conversation
MaxConversation == 3
\* captures start_capture is asked to start in one session
MaxCaptures == 2
\* packets a capture thread of start_capture counts
MaxCounted == 2

(***************************************************************************)
(* Generic helpers                                                         *)
(***************************************************************************)
\* absent Option<u16> port (outside the u16 range)
NoPort == 65536

Range(f) == {f[x] : x \in DOMAIN f}

RECURSIVE SumSeq(_)
SumSeq(s) == IF s = <<>> THEN 0 ELSE Head(s) + SumSeq(Tail(s))

RECURSIVE SumOver(_, _)
\* sum of f[x] over the finite set S
SumOver(f, S) ==
    IF S = {} THEN 0
    ELSE LET x == CHOOSE y \in S : TRUE IN f[x] + SumOver(f, S \ {x})

RECURSIVE BitAnd(_, _)
\* bitwise AND of two naturals (the u8 `&` of is_local_connection)
BitAnd(a, b) ==
    IF a = 0 \/ b = 0 THEN 0
    ELSE (a % 2) * (b % 2) + 2 * BitAnd(a \div 2, b \div 2)

(***************************************************************************)
(* IP addresses: std::net::IpAddr as version + octets                      *)
(***************************************************************************)
V4(a, b, c, d) == [v |-> 4, o |-> <<a, b, c, d>>]

BROADCAST_V4 == V4(255, 255, 255, 255)
UNSPECIFIED_V4 == V4(0, 0, 0, 0)
UNSPECIFIED_V6 == [v |-> 6, o |-> [i \in 1..16 |-> 0]]
LOCALHOST_V6 == [v |-> 6, o |-> [i \in 1..16 |-> IF i = 16 THEN 1 ELSE 0]]

\* IpAddr::is_loopback: 127.0.0.0/8 or ::1
is_loopback(ip) ==
    IF ip.v = 4 THEN ip.o[1] = 127 ELSE ip = LOCALHOST_V6

\* IpAddr::is_multicast: 224.0.0.0/4 or ff00::/8
is_multicast(ip) ==
    IF ip.v = 4 THEN ip.o[1] \in 224..239 ELSE ip.o[1] = 255

\* Ipv4Addr::is_link_local (169.254.0.0/16), Ipv6Addr::is_unicast_link_local (fe80::/10)
is_link_local(ip) ==
    IF ip.v = 4 THEN ip.o[1] = 169 /\ ip.o[2] = 254
    ELSE ip.o[1] = 254 /\ (ip.o[2] \div 64) = 2

\* a <= b for IPv4 addresses, octet by octet, for range containment
V4Le(a, b) ==
    \/ a.o = b.o
    \/ \E i \in 1..4 : a.o[i] < b.o[i] /\ \A j \in 1..(i - 1) : a.o[j] = b.o[j]

\* the IPv4 bogon ranges of bogon.rs, as <<first, last, description>>
BOGONS_V4 == <<
    <<V4(0, 0, 0, 0), V4(0, 255, 255, 255), "this network">>,
    <<V4(10, 0, 0, 0), V4(10, 255, 255, 255), "private-use">>,
    <<V4(172, 16, 0, 0), V4(172, 31, 255, 255), "private-use">>,
    <<V4(192, 168, 0, 0), V4(192, 168, 255, 255), "private-use">>,
    <<V4(100, 64, 0, 0), V4(100, 127, 255, 255), "carrier-grade NAT">>,
    <<V4(127, 0, 0, 0), V4(127, 255, 255, 255), "loopback">>,
    <<V4(169, 254, 0, 0), V4(169, 254, 255, 255), "link local">>,
    <<V4(192, 0, 0, 0), V4(192, 0, 0, 255), "IETF protocol assignments">>,
    <<V4(192, 0, 2, 0), V4(192, 0, 2, 255), "TEST-NET-1">>,
    <<V4(198, 18, 0, 0), V4(198, 19, 255, 255), "network interconnect device benchmark testing">>,
    <<V4(198, 51, 100, 0), V4(198, 51, 100, 255), "TEST-NET-2">>,
    <<V4(203, 0, 113, 0), V4(203, 0, 113, 255), "TEST-NET-3">>,
    <<V4(224, 0, 0, 0), V4(239, 255, 255, 255), "multicast">>,
    <<V4(240, 0, 0, 0), V4(255, 255, 255, 255), "future use">> >>

\* is_bogon(ip): description of the matching range, or "" for None.
\* The IPv6 table is cut off in the source; only ::/128 and ::1/128 (the two
\* IPv6 addresses this model uses) are listed, as the spec's "IPv6 equivalents".
is_bogon(ip) ==
    IF ip.v = 4
    THEN LET hits == {i \in DOMAIN BOGONS_V4 :
                         /\ V4Le(BOGONS_V4[i][1], ip)
                         /\ V4Le(ip, BOGONS_V4[i][2])}
         IN IF hits = {} THEN ""
            ELSE BOGONS_V4[CHOOSE i \in hits : \A j \in hits : i <= j][3]
    ELSE IF ip = UNSPECIFIED_V6 \/ ip = LOCALHOST_V6 THEN "node-scope unicast" ELSE ""

(***************************************************************************)
(* pcap::Address of the capturing interface; NoAddr is Option::None        *)
(***************************************************************************)
NoAddr == [v |-> 0, o |-> <<>>]

Address(addr, netmask, broadcast_addr) ==
    [addr |-> addr, netmask |-> netmask, broadcast_addr |-> broadcast_addr]

(***************************************************************************)
(* TrafficDirection, Service, DataInfo                                     *)
(***************************************************************************)
Incoming == "Incoming"
Outgoing == "Outgoing"

ServiceName(n) == [tag |-> "Name", name |-> n]
ServiceUnknown == [tag |-> "Unknown", name |-> "?"]
ServiceNotApplicable == [tag |-> "NotApplicable", name |-> "-"]

\* the static table (port, protocol) -> Service::Name: the placeholder map of
\* manage_packets.rs has no entry
SERVICES == [q \in {} |-> ServiceUnknown]

\* DataInfo::default (final_instant, a wall-clock Instant, is left out)
DataInfoDefault ==
    [incoming_packets |-> 0, outgoing_packets |-> 0,
     incoming_bytes |-> 0, outgoing_bytes |-> 0]

\* the mutation of add_packets: the packets are counted as incoming whatever
\* the direction
AddPacketsIncoming(d, packets, bytes, traffic_direction) ==
    [d EXCEPT !.incoming_packets = @ + packets, !.incoming_bytes = @ + bytes]

\* DataInfo::add_packets
add_packets(d, packets, bytes, traffic_direction) ==
    IF traffic_direction = Outgoing
    THEN [d EXCEPT !.outgoing_packets = @ + packets, !.outgoing_bytes = @ + bytes]
    ELSE [d EXCEPT !.incoming_packets = @ + packets, !.incoming_bytes = @ + bytes]

\* DataInfo::add_packet
add_packet(d, bytes, traffic_direction) ==
    IF traffic_direction = Outgoing
    THEN [d EXCEPT !.outgoing_packets = @ + 1, !.outgoing_bytes = @ + bytes]
    ELSE [d EXCEPT !.incoming_packets = @ + 1, !.incoming_bytes = @ + bytes]

\* DataInfo::new_with_first_packet
new_with_first_packet(bytes, traffic_direction) ==
    IF traffic_direction = Outgoing
    THEN [incoming_packets |-> 0, outgoing_packets |-> 1,
          incoming_bytes |-> 0, outgoing_bytes |-> bytes]
    ELSE [incoming_packets |-> 1, outgoing_packets |-> 0,
          incoming_bytes |-> bytes, outgoing_bytes |-> 0]

\* DataInfo::refresh
refresh(d, rhs) ==
    [incoming_packets |-> d.incoming_packets + rhs.incoming_packets,
     outgoing_packets |-> d.outgoing_packets + rhs.outgoing_packets,
     incoming_bytes |-> d.incoming_bytes + rhs.incoming_bytes,
     outgoing_bytes |-> d.outgoing_bytes + rhs.outgoing_bytes]

\* DataInfo::tot_data for DataRepr::Packets and DataRepr::Bytes
tot_packets(d) == d.incoming_packets + d.outgoing_packets
tot_bytes(d) == d.incoming_bytes + d.outgoing_bytes

(***************************************************************************)
(* Direction, type and service classification (manage_packets.rs)          *)
(***************************************************************************)
\* a test of locality that never falls back on the bogon ranges
IsLocalListOnly(interface_addresses, ip) == ip \in Range(interface_addresses)

\* the closure is_local of get_traffic_direction
is_local(interface_addresses, ip) ==
    IF interface_addresses = <<>>
    THEN is_bogon(ip) # ""
    ELSE ip \in Range(interface_addresses)

\* a direction that is Outgoing for equal loopback ports too
DirectionLoopbackGe(source_ip, destination_ip, source_port, dest_port, my_interface_addresses) ==
    IF source_port >= dest_port THEN Outgoing ELSE Incoming

get_traffic_direction(source_ip, destination_ip, source_port, dest_port, my_interface_addresses) ==
    LET my_interface_addresses_ip ==
            [i \in DOMAIN my_interface_addresses |-> my_interface_addresses[i].addr]
    IN IF /\ is_loopback(source_ip)
          /\ is_loopback(destination_ip)
          /\ source_port # NoPort
          /\ dest_port # NoPort
       THEN IF source_port > dest_port THEN Outgoing ELSE Incoming
       ELSE IF is_local(my_interface_addresses_ip, source_ip)
       THEN Outgoing
       ELSE IF source_ip # UNSPECIFIED_V4 /\ source_ip # UNSPECIFIED_V6
       THEN Incoming
       ELSE IF ~is_local(my_interface_addresses_ip, destination_ip)
       THEN Outgoing
       ELSE Incoming

\* a test that knows the limited broadcast address only
OnlyLimitedBroadcast(address, my_interface_addresses) == address = [v |-> 4, o |-> <<255, 255, 255, 255>>]

is_broadcast_address(address, my_interface_addresses) ==
    \/ address = BROADCAST_V4
    \/ \E i \in DOMAIN my_interface_addresses :
          address = (IF my_interface_addresses[i].broadcast_addr = NoAddr
                     THEN BROADCAST_V4
                     ELSE my_interface_addresses[i].broadcast_addr)

get_traffic_type(destination_ip, my_interface_addresses, traffic_direction) ==
    IF traffic_direction = Outgoing
    THEN IF is_multicast(destination_ip) THEN "Multicast"
         ELSE IF is_broadcast_address(destination_ip, my_interface_addresses)
         THEN "Broadcast"
         ELSE "Unicast"
    ELSE "Unicast"

\* one iteration of the loop of is_local_connection: does `address` make the
\* looked-up address local?
SameSubnet(address_to_lookup, address) ==
    /\ address.addr.v = address_to_lookup.v
    /\ \/ is_link_local(address_to_lookup)
       \/ /\ address.netmask # NoAddr
          /\ address.netmask.v = address_to_lookup.v
          /\ \A i \in DOMAIN address.netmask.o :
                BitAnd(address.netmask.o[i], address.addr.o[i])
                    = BitAnd(address.netmask.o[i], address_to_lookup.o[i])

is_local_connection(address_to_lookup, my_interface_addresses) ==
    \E i \in DOMAIN my_interface_addresses :
        SameSubnet(address_to_lookup, my_interface_addresses[i])

\* a score without the bonus of the direction
ScoreWithoutBonus(service, port, bonus_direction) ==
    (IF service.tag = "Name" THEN 1 ELSE 0) * (IF port < 1024 THEN 3 ELSE 1)

\* the closure compute_service_score of get_service
compute_service_score(service, port, bonus_direction) ==
    LET service_is_some == IF service.tag = "Name" THEN 1 ELSE 0
        port_is_well_known == IF port < 1024 THEN 3 ELSE 1
        bonus == IF bonus_direction THEN 1 ELSE 0
    IN service_is_some * (port_is_well_known + bonus)

\* SERVICES.get(&ServiceQuery(port, protocol)).unwrap_or(&unknown)
ServiceOf(services, port, protocol) ==
    IF <<port, protocol>> \in DOMAIN services
    THEN services[<<port, protocol>>]
    ELSE ServiceUnknown

\* a lookup that does not test the presence of the ports
GetServiceAnyPort(services, key, traffic_direction, my_interface_addresses) ==
    IF key.protocol = "ICMP" \/ key.protocol = "ARP" THEN ServiceNotApplicable
    ELSE ServiceOf(services, key.port2, key.protocol)

\* get_service over a given table
get_service_in(services, key, traffic_direction, my_interface_addresses) ==
    IF key.protocol = "ICMP" \/ key.protocol = "ARP" THEN ServiceNotApplicable
    ELSE IF key.port1 = NoPort THEN ServiceNotApplicable
    ELSE IF key.port2 = NoPort THEN ServiceNotApplicable
    ELSE LET service1 == ServiceOf(services, key.port1, key.protocol)
             service2 == ServiceOf(services, key.port2, key.protocol)
             dest_ip == key.address2
             bonus_dest == \/ traffic_direction = Outgoing
                           \/ is_multicast(dest_ip)
                           \/ is_broadcast_address(dest_ip, my_interface_addresses)
             score1 == compute_service_score(service1, key.port1, ~bonus_dest)
             score2 == compute_service_score(service2, key.port2, bonus_dest)
         IN IF score1 > score2 THEN service1 ELSE service2

get_service(key, traffic_direction, my_interface_addresses) ==
    get_service_in(SERVICES, key, traffic_direction, my_interface_addresses)

get_address_to_lookup(key, traffic_direction) ==
    IF traffic_direction = Outgoing THEN key.address2 ELSE key.address1

(***************************************************************************)
(* Decoded headers (etherparse::LaxPacketHeaders) and analyze_headers      *)
(***************************************************************************)
LinkEthernet2 == [kind |-> "Ethernet2"]
LinkNone == [kind |-> "None"]

NetIpv4(source, destination, total_len) ==
    [kind |-> "Ipv4", source |-> source, destination |-> destination,
     len |-> total_len, proto_addr_type |-> "", sender |-> <<>>, target |-> <<>>,
     operation |-> ""]
NetIpv6(source, destination, payload_length) ==
    [kind |-> "Ipv6", source |-> source, destination |-> destination,
     len |-> payload_length, proto_addr_type |-> "", sender |-> <<>>,
     target |-> <<>>, operation |-> ""]
NetArp(proto_addr_type, sender, target, packet_len, operation) ==
    [kind |-> "Arp", source |-> NoAddr, destination |-> NoAddr,
     len |-> packet_len, proto_addr_type |-> proto_addr_type, sender |-> sender,
     target |-> target, operation |-> operation]
NetNone == [NetIpv4(NoAddr, NoAddr, 0) EXCEPT !.kind = "None"]

TransportTcp(sport, dport) ==
    [kind |-> "Tcp", source_port |-> sport, destination_port |-> dport, icmp_type |-> ""]
TransportUdp(sport, dport) ==
    [kind |-> "Udp", source_port |-> sport, destination_port |-> dport, icmp_type |-> ""]
TransportIcmpv4(t) ==
    [kind |-> "Icmpv4", source_port |-> NoPort, destination_port |-> NoPort, icmp_type |-> t]
TransportIcmpv6(t) ==
    [kind |-> "Icmpv6", source_port |-> NoPort, destination_port |-> NoPort, icmp_type |-> t]
\* a missing transport header, or one of another protocol
TransportNone ==
    [kind |-> "None", source_port |-> NoPort, destination_port |-> NoPort, icmp_type |-> ""]

Headers(link, net, transport) == [link |-> link, net |-> net, transport |-> transport]

AddressPortPair(address1, port1, address2, port2, protocol) ==
    [address1 |-> address1, port1 |-> port1, address2 |-> address2,
     port2 |-> port2, protocol |-> protocol]

\* PacketFiltersFields::default(): unspecified addresses, no ports, and the
\* protocol that an ARP packet (whose transport header is never read) keeps
PacketFiltersFieldsDefault ==
    [source |-> UNSPECIFIED_V4, dest |-> UNSPECIFIED_V4, sport |-> NoPort,
     dport |-> NoPort, protocol |-> "ARP"]

\* the accounting of the Ethernet header in analyze_link_header
analyze_link_header(link_header) ==
    IF link_header.kind = "Ethernet2" THEN 14 ELSE 0

\* u128::from(40 + ipv6header.payload_length): the sum is computed in u16
ipv6_exchanged_bytes(payload_length) == (40 + payload_length) % 65536

\* a conversion that pads or cuts the slice instead of failing
ArpAddrAnyLength(bytes, n) ==
    [v |-> (IF n = 4 THEN 4 ELSE 6),
     o |-> [i \in 1..n |-> IF i <= Len(bytes) THEN bytes[i] ELSE 0]]

\* TryInto::<[u8; N]>::try_into(bytes): Ok iff the slice has exactly N bytes
ArpAddr(bytes, n) ==
    IF Len(bytes) = n THEN [v |-> (IF n = 4 THEN 4 ELSE 6), o |-> bytes] ELSE NoAddr

\* analyze_network_header: [ok, address1, address2, bytes (added to
\* exchanged_bytes), arp_type]
analyze_network_header(net) ==
    LET skip == [ok |-> FALSE, address1 |-> NoAddr, address2 |-> NoAddr,
                 bytes |-> 0, arp_type |-> ""]
    IN CASE net.kind = "Ipv4" ->
              [ok |-> TRUE, address1 |-> net.source, address2 |-> net.destination,
               bytes |-> net.len, arp_type |-> ""]
         [] net.kind = "Ipv6" ->
              [ok |-> TRUE, address1 |-> net.source, address2 |-> net.destination,
               bytes |-> ipv6_exchanged_bytes(net.len), arp_type |-> ""]
         [] net.kind = "Arp" ->
              LET n == IF net.proto_addr_type = "IPV4" THEN 4 ELSE 16
                  a1 == ArpAddr(net.sender, n)
                  a2 == ArpAddr(net.target, n)
              IN IF net.proto_addr_type \notin {"IPV4", "IPV6"} THEN skip
                 ELSE IF a1 = NoAddr \/ a2 = NoAddr THEN skip
                 ELSE [ok |-> TRUE, address1 |-> a1, address2 |-> a2,
                       bytes |-> net.len, arp_type |-> net.operation]
         [] OTHER -> skip

\* a transport analysis that accepts every header
TransportAlwaysOk(transport) ==
    [ok |-> TRUE, port1 |-> transport.source_port,
     port2 |-> transport.destination_port, protocol |-> "TCP", icmp_type |-> ""]

\* analyze_transport_header: [ok, port1, port2, protocol, icmp_type]
analyze_transport_header(transport) ==
    CASE transport.kind = "Udp" ->
           [ok |-> TRUE, port1 |-> transport.source_port,
            port2 |-> transport.destination_port, protocol |-> "UDP", icmp_type |-> ""]
      [] transport.kind = "Tcp" ->
           [ok |-> TRUE, port1 |-> transport.source_port,
            port2 |-> transport.destination_port, protocol |-> "TCP", icmp_type |-> ""]
      [] transport.kind \in {"Icmpv4", "Icmpv6"} ->
           [ok |-> TRUE, port1 |-> NoPort, port2 |-> NoPort, protocol |-> "ICMP",
            icmp_type |-> transport.icmp_type]
      [] OTHER ->
           [ok |-> FALSE, port1 |-> NoPort, port2 |-> NoPort, protocol |-> "",
            icmp_type |-> ""]

\* analyze_headers: [some (a key was returned), key, exchanged_bytes,
\* icmp_type, arp_type]
analyze_headers(headers) ==
    LET f == PacketFiltersFieldsDefault
        link_bytes == analyze_link_header(headers.link)
        is_arp == headers.net.kind = "Arp"
        n == analyze_network_header(headers.net)
        t == analyze_transport_header(headers.transport)
        none == [some |-> FALSE,
                 key |-> AddressPortPair(NoAddr, NoPort, NoAddr, NoPort, ""),
                 exchanged_bytes |-> 0, icmp_type |-> "", arp_type |-> ""]
    IN IF ~n.ok THEN none
       ELSE IF ~is_arp /\ ~t.ok THEN none
       ELSE IF is_arp
       THEN [some |-> TRUE,
             key |-> AddressPortPair(n.address1, f.sport, n.address2, f.dport, f.protocol),
             exchanged_bytes |-> link_bytes + n.bytes,
             icmp_type |-> "", arp_type |-> n.arp_type]
       ELSE [some |-> TRUE,
             key |-> AddressPortPair(n.address1, t.port1, n.address2, t.port2, t.protocol),
             exchanged_bytes |-> link_bytes + n.bytes,
             icmp_type |-> t.icmp_type, arp_type |-> ""]

(***************************************************************************)
(* The aggregate InfoTraffic and modify_or_insert_in_map                   *)
(***************************************************************************)
EmptyMap == [x \in {} |-> 0]

\* Timestamp::default()
TimestampDefault == [secs |-> 0, usecs |-> 0]

\* InfoTraffic::default()
InfoTrafficDefault ==
    [map |-> EmptyMap, services |-> EmptyMap, hosts |-> EmptyMap,
     tot_data_info |-> DataInfoDefault, dropped_packets |-> 0,
     last_packet_timestamp |-> TimestampDefault]

\* HashMap entry(k).and_modify(|n| *n += 1).or_insert(1)
Bump(hist, k) ==
    IF k \in DOMAIN hist THEN [hist EXCEPT ![k] = @ + 1] ELSE hist @@ (k :> 1)

\* an and_modify that adds the bytes and forgets to count the packet
ModifyInfoNoCount(info, key, timestamp, icmp_type, arp_type, exchanged_bytes) ==
    [info EXCEPT !.transmitted_bytes = @ + exchanged_bytes,
                 !.final_timestamp = timestamp]

\* an and_modify that also stores the direction and service of the call,
\* which for a later packet are the defaults
ModifyInfoOverwrite(info, key, timestamp, icmp_type, arp_type, exchanged_bytes) ==
    [info EXCEPT !.transmitted_bytes = @ + exchanged_bytes,
                 !.transmitted_packets = @ + 1,
                 !.final_timestamp = timestamp,
                 !.traffic_direction = Incoming,
                 !.service = ServiceUnknown]

\* the mutation of ModifyInfo: an and_modify that counts the packet and leaves
\* the histograms alone
ModifyInfoNoHistogram(info, key, timestamp, icmp_type, arp_type, exchanged_bytes) ==
    [info EXCEPT !.transmitted_bytes = @ + exchanged_bytes,
                 !.transmitted_packets = @ + 1,
                 !.final_timestamp = timestamp]

\* the and_modify closure of modify_or_insert_in_map
ModifyInfo(info, key, timestamp, icmp_type, arp_type, exchanged_bytes) ==
    [info EXCEPT
        !.transmitted_bytes = @ + exchanged_bytes,
        !.transmitted_packets = @ + 1,
        !.final_timestamp = timestamp,
        !.icmp_types = IF key.protocol = "ICMP" THEN Bump(@, icmp_type) ELSE @,
        !.arp_types = IF key.protocol = "ARP" THEN Bump(@, arp_type) ELSE @]

\* the or_insert_with closure of modify_or_insert_in_map
InsertInfo(key, timestamp, icmp_type, arp_type, exchanged_bytes, service, traffic_direction) ==
    [transmitted_bytes |-> exchanged_bytes,
     transmitted_packets |-> 1,
     initial_timestamp |-> timestamp,
     final_timestamp |-> timestamp,
     service |-> service,
     traffic_direction |-> traffic_direction,
     icmp_types |-> IF key.protocol = "ICMP" THEN (icmp_type :> 1) ELSE EmptyMap,
     arp_types |-> IF key.protocol = "ARP" THEN (arp_type :> 1) ELSE EmptyMap]

\* a map rebuilt from the packet in hand alone
MapAfterPacketOnlyKey(map, key, timestamp, icmp_type, arp_type, exchanged_bytes, service, traffic_direction) ==
    key :> (IF key \in DOMAIN map
            THEN ModifyInfo(map[key], key, timestamp, icmp_type, arp_type,
                            exchanged_bytes)
            ELSE InsertInfo(key, timestamp, icmp_type, arp_type, exchanged_bytes,
                            service, traffic_direction))

\* info_traffic_msg.map.entry(*key).and_modify(..).or_insert_with(..)
MapAfterPacket(map, key, timestamp, icmp_type, arp_type, exchanged_bytes, service, traffic_direction) ==
    IF key \in DOMAIN map
    THEN [map EXCEPT ![key] =
             ModifyInfo(@, key, timestamp, icmp_type, arp_type, exchanged_bytes)]
    ELSE map @@ (key :> InsertInfo(key, timestamp, icmp_type, arp_type,
                                   exchanged_bytes, service, traffic_direction))

\* modify_or_insert_in_map: [info (the updated aggregate), traffic_direction,
\* service]; the MAC strings of the entry are left out
modify_or_insert_in_map(info_traffic, key, addresses, icmp_type, arp_type, exchanged_bytes) ==
    LET first == key \notin DOMAIN info_traffic.map
        traffic_direction ==
            IF first
            THEN get_traffic_direction(key.address1, key.address2, key.port1,
                                       key.port2, addresses)
            ELSE Incoming
        service ==
            IF first THEN get_service(key, traffic_direction, addresses)
            ELSE ServiceUnknown
        new_map == MapAfterPacket(info_traffic.map, key,
                                  info_traffic.last_packet_timestamp, icmp_type,
                                  arp_type, exchanged_bytes, service, traffic_direction)
    IN [info |-> [info_traffic EXCEPT !.map = new_map],
        traffic_direction |-> new_map[key].traffic_direction,
        service |-> new_map[key].service]

\* InfoTraffic::take_but_leave_something: hands out the current aggregate and
\* leaves one with every counter drained and every entry kept alive
Drained(info_traffic) ==
    [info_traffic EXCEPT
        !.map = [k \in DOMAIN @ |->
                    [@[k] EXCEPT !.transmitted_bytes = 0, !.transmitted_packets = 0,
                                 !.icmp_types = EmptyMap, !.arp_types = EmptyMap]],
        !.services = [s \in DOMAIN @ |-> DataInfoDefault],
        !.hosts = [h \in DOMAIN @ |-> [@[h] EXCEPT !.data_info = DataInfoDefault]],
        !.tot_data_info = DataInfoDefault]

take_but_leave_something(info_traffic) ==
    [taken |-> info_traffic, left |-> Drained(info_traffic)]

(***************************************************************************)
(* Hosts and the resolution environment                                    *)
(***************************************************************************)
\* a reverse-DNS string: a name, or the textual form of an address
RdnsName(n) == [text |-> n, ip |-> NoAddr]
\* IpAddr::to_string
to_string(ip) == [text |-> "", ip |-> ip]

\* the outcomes of lookup_addr: a name, an empty name, an error
LookupResults ==
    {[ok |-> TRUE, name |-> "dns.example"], [ok |-> TRUE, name |-> ""],
     [ok |-> FALSE, name |-> ""]}

\* get_country / get_asn: no enrichment without a database reader
get_country(ip, reader) ==
    IF reader = "Some" /\ is_bogon(ip) = "" THEN "US" ELSE "ZZ"
get_asn(ip, reader) ==
    IF reader = "Some" /\ is_bogon(ip) = ""
    THEN [code |-> "64500", name |-> "EXAMPLE-AS"]
    ELSE [code |-> "", name |-> ""]

\* get_domain_from_r_dns: the domain kept of a reverse-DNS string
get_domain_from_r_dns(rdns) == rdns

\* the rdns string chosen in reverse_dns_lookup
RdnsOf(lookup_result, address_to_lookup) ==
    IF lookup_result.ok
    THEN IF lookup_result.name = "" THEN to_string(address_to_lookup)
         ELSE RdnsName(lookup_result.name)
    ELSE to_string(address_to_lookup)

NewHost(rdns, asn, country) ==
    [domain |-> get_domain_from_r_dns(rdns), asn |-> asn, country |-> country]

HostDefault == NewHost(RdnsName(""), [code |-> "", name |-> ""], "ZZ")

DataInfoHost(data_info, address_to_lookup, interface_addresses, traffic_direction) ==
    [data_info |-> data_info,
     is_favorite |-> FALSE,
     is_loopback |-> is_loopback(address_to_lookup),
     is_local |-> is_local_connection(address_to_lookup, interface_addresses),
     is_bogon |-> is_bogon(address_to_lookup),
     traffic_type |-> get_traffic_type(address_to_lookup, interface_addresses,
                                       traffic_direction)]

(***************************************************************************)
(* Sample inputs                                                           *)
(***************************************************************************)
LocalIp == V4(192, 168, 1, 10)
RemoteA == V4(8, 8, 8, 8)
RemoteB == V4(1, 1, 1, 1)

\* address lists the capturing interface can report
IfaceFirst == <<Address(LocalIp, V4(255, 255, 255, 0), V4(192, 168, 1, 255))>>
IfaceChoices == {IfaceFirst, <<Address(V4(8, 8, 8, 5), V4(255, 255, 255, 0), NoAddr)>>}

\* decoded headers the capture source delivers
SampleHeaders ==
    {Headers(LinkEthernet2, NetIpv4(LocalIp, RemoteA, 60), TransportTcp(50000, 443)),
     Headers(LinkEthernet2, NetIpv4(RemoteA, LocalIp, 40), TransportTcp(443, 50000)),
     Headers(LinkNone, NetIpv4(RemoteB, LocalIp, 84), TransportIcmpv4("EchoReply")),
     Headers(LinkEthernet2, NetIpv4(LocalIp, RemoteA, 60), TransportNone)}

\* packet timestamps: those of a file decide its emissions, those of a live
\* capture decide nothing (its emissions follow the wall clock)
SampleTimestamps(kind) ==
    IF kind = "File" THEN {[secs |-> 1, usecs |-> 0], [secs |-> 3, usecs |-> 0]}
    ELSE {[secs |-> 1, usecs |-> 0]}

Undecodable ==
    [decoded |-> FALSE, headers |-> Headers(LinkNone, NetNone, TransportNone),
     ts |-> [secs |-> 1, usecs |-> 0]]

\* a packet: whether get_sniffable_headers decodes it, its headers, its timestamp
SamplePackets(kind) ==
    {[decoded |-> TRUE, headers |-> h, ts |-> t] :
        h \in SampleHeaders, t \in SampleTimestamps(kind)}
    \cup {Undecodable}

(***************************************************************************)
(* State                                                                   *)
(***************************************************************************)
VARIABLES
    cs,                 \* CaptureSource: kind (Device / File) and interface addresses
    mmdb_readers,       \* "Some" / "None": whether the geo databases are loaded
    cap,                \* the packet source: packets delivered so far, read position, end reached
    pc,                 \* position of the capture thread in parse_packets
    packet_res,         \* result of the last cap.next_packet()
    first_packet_ticks, \* Option<Instant>: TRUE when Some
    info_traffic_msg,   \* the aggregate InfoTraffic owned by the capture thread
    loc,                \* locals of the capture thread for the packet in hand
    resolutions_state,  \* the ledger AddressesResolutionState
    ledger_lock,        \* holders of the Mutex around resolutions_state
    hosts_lock,         \* holders of the Mutex around new_hosts_to_send
    new_hosts_to_send,  \* the Vec<HostMessage> of newly resolved hosts
    tasks,              \* the reverse_dns_lookup threads spawned so far
    resolver,           \* the answers the DNS resolver has given, per address
    events,             \* events the capture thread emitted to the frontend, in order
    interval_start,     \* number of packets read before the last take_but_leave_something
    first_run,          \* replay only: the counters a first run of the same packets produced
    call,               \* a call of a classification function: name, arguments, result
    STOP_SIGNAL,        \* static mut STOP_SIGNAL of mod.rs: None or the thread whose flag it is
    CAPTURE_THREAD,     \* static mut CAPTURE_THREAD of mod.rs: None or the thread of the handle
    CAPTURE_CHANNEL,    \* static mut CAPTURE_CHANNEL of mod.rs: None or the channel
    capture_threads,    \* the threads start_capture has spawned, each with its stop flag
    channels,           \* the queues of the channels start_capture has created
    returned            \* the last command of the frontend and what it returned

vars == <<cs, mmdb_readers, cap, pc, packet_res, first_packet_ticks,
          info_traffic_msg, loc, resolutions_state, ledger_lock, hosts_lock,
          new_hosts_to_send, tasks, resolver, events, interval_start,
          first_run, call, STOP_SIGNAL, CAPTURE_THREAD, CAPTURE_CHANNEL,
          capture_threads, channels, returned>>

\* the statics of mod.rs and the threads and channels of start_capture
mod_vars == <<STOP_SIGNAL, CAPTURE_THREAD, CAPTURE_CHANNEL, capture_threads,
              channels, returned>>

\* no classification function is being called
NoCall == [fn |-> "", args |-> <<>>, done |-> FALSE, result |-> ""]

\* no command was issued yet
NoCommand ==
    [command |-> "", result |-> "", active |-> {}, joining |-> 0,
     data |-> [total_packets |-> 0, total_bytes |-> 0]]

\* Option::None of the statics of mod.rs (threads and channels count from 1)
None == 0

\* mod.rs before any command: the three statics are None
InitMod ==
    /\ STOP_SIGNAL = None
    /\ CAPTURE_THREAD = None
    /\ CAPTURE_CHANNEL = None
    /\ capture_threads = <<>>
    /\ channels = <<>>
    /\ returned = NoCommand

\* thread ids: the capture thread, and task i is thread i
CaptureThread == 0

NoPacket == [tag |-> "None", packet |-> Undecodable]
OkPacket(p) == [tag |-> "Ok", packet |-> p]
ErrNoMorePackets == [NoPacket EXCEPT !.tag = "NoMorePackets"]
ErrOther == [NoPacket EXCEPT !.tag = "Err"]

LocDefault ==
    [key |-> AddressPortPair(NoAddr, NoPort, NoAddr, NoPort, ""),
     exchanged_bytes |-> 0, traffic_direction |-> Incoming,
     service |-> ServiceUnknown, address_to_lookup |-> NoAddr, host |-> HostDefault]

LedgerDefault ==
    [addresses_waiting_resolution |-> EmptyMap, addresses_resolved |-> EmptyMap]

Init ==
    /\ cs \in {[kind |-> "File", addresses |-> <<>>],
               [kind |-> "Device", addresses |-> IfaceFirst]}
    /\ mmdb_readers \in {"None", "Some"}
    /\ cap = [tape |-> <<>>, pos |-> 0, eof |-> FALSE]
    /\ pc = "next"
    /\ packet_res = NoPacket
    /\ first_packet_ticks = FALSE
    /\ info_traffic_msg = InfoTrafficDefault
    /\ loc = LocDefault
    /\ resolutions_state = LedgerDefault
    /\ ledger_lock = {}
    /\ hosts_lock = {}
    /\ new_hosts_to_send = <<>>
    /\ tasks = <<>>
    /\ resolver = EmptyMap
    /\ events = <<>>
    /\ interval_start = 0
    /\ first_run = [done |-> FALSE, counters |-> <<>>]
    /\ call = NoCall
    /\ InitMod

(***************************************************************************)
(* Events emitted to the frontend                                          *)
(***************************************************************************)
Event(name, info_traffic, new_hosts, is_final, duration) ==
    [name |-> name, info_traffic |-> info_traffic, new_hosts |-> new_hosts,
     is_final |-> is_final, duration |-> duration]
\* a traffic_update that leaves out the drained hosts
TrafficUpdateWithoutHosts(info_traffic, new_hosts, is_final) ==
    Event("traffic_update", info_traffic, <<>>, is_final, 0)

TrafficUpdateMessage(info_traffic, new_hosts, is_final) ==
    Event("traffic_update", info_traffic, new_hosts, is_final, 0)
\* a last batch that leaves out the hosts resolved during the wait
PendingHostsNone(new_hosts) ==
    Event("pending_hosts", InfoTrafficDefault, <<>>, FALSE, 0)

PendingHostsMessage(new_hosts) ==
    Event("pending_hosts", InfoTrafficDefault, new_hosts, FALSE, 0)
OfflineGapMessage(duration) ==
    Event("offline_gap", InfoTrafficDefault, <<>>, FALSE, duration)

\* number of delivered packets the capture loop has already taken through its
\* match on packet_res
AccountedLen ==
    IF pc \in {"emit_live", "match"} /\ packet_res.tag = "Ok"
    THEN cap.pos - 1 ELSE cap.pos

\* threads spawned and not yet finished
Running == {t \in DOMAIN tasks : tasks[t].pc # "done"}

\* new_hosts_to_send.lock() by a thread: it blocks until the Mutex is free;
\* the guard is a temporary of the statement that uses it, so the Mutex is
\* taken, used and released by one statement
HostsLock(thread) == hosts_lock \subseteq {thread}

(***************************************************************************)
(* The capture thread: parse_packets                                       *)
(***************************************************************************)
\* all packets of the source are exchanged between the same two addresses
SameConversation(tape) ==
    \A i \in DOMAIN tape :
        /\ tape[i].decoded
        /\ analyze_headers(tape[i].headers).some
        /\ {analyze_headers(tape[i].headers).key.address1,
            analyze_headers(tape[i].headers).key.address2}
           = {analyze_headers(tape[1].headers).key.address1,
              analyze_headers(tape[1].headers).key.address2}

\* the sources of the model: up to MaxPackets packets of any kind, or up to
\* MaxConversation packets of one conversation
WithinBounds(tape) ==
    \/ Len(tape) <= MaxPackets
    \/ Len(tape) <= MaxConversation /\ SameConversation(tape)

\* cap.next_packet(): the next packet of the source, its end, or another error
\* (a timeout of a live capture)
NextPacket ==
    /\ pc = "next"
    /\ \/ /\ cap.pos < Len(cap.tape)
          /\ packet_res' = OkPacket(cap.tape[cap.pos + 1])
          /\ cap' = [cap EXCEPT !.pos = @ + 1]
       \/ /\ cap.pos = Len(cap.tape) /\ ~cap.eof
          /\ \E p \in SamplePackets(cs.kind) :
                /\ WithinBounds(Append(cap.tape, p))
                /\ packet_res' = OkPacket(p)
                /\ cap' = [cap EXCEPT !.tape = Append(@, p), !.pos = @ + 1]
       \/ /\ cap.pos = Len(cap.tape) /\ cs.kind = "File"
          /\ packet_res' = ErrNoMorePackets
          /\ cap' = [cap EXCEPT !.eof = TRUE]
       \/ /\ cs.kind = "Device"
          /\ packet_res' = ErrOther
          /\ cap' = cap
    /\ pc' = IF cs.kind = "Device" THEN "emit_live" ELSE "match"
    /\ UNCHANGED <<call, mod_vars, hosts_lock, first_run, cs, mmdb_readers, first_packet_ticks, info_traffic_msg, loc,
                   resolutions_state, ledger_lock, new_hosts_to_send,
                   tasks, resolver, events, interval_start>>

\* maybe_emit_traffic_update_live, one second having elapsed: emit the
\* aggregate and the drained new hosts, then re-read the interface addresses
EmitLiveTick ==
    /\ pc = "emit_live"
    /\ HostsLock(CaptureThread)
    /\ first_packet_ticks
    /\ Len(events) < MaxTicks
    /\ LET t == take_but_leave_something(info_traffic_msg)
       IN /\ events' = Append(events,
                              TrafficUpdateMessage(t.taken, new_hosts_to_send, FALSE))
          /\ info_traffic_msg' = t.left
    /\ new_hosts_to_send' = <<>>
    /\ \E a \in IfaceChoices \cup {cs.addresses} : cs' = [cs EXCEPT !.addresses = a]
    /\ interval_start' = AccountedLen
    /\ pc' = "match"
    /\ hosts_lock' = {}
    /\ UNCHANGED <<call, mod_vars, first_run, mmdb_readers, cap, packet_res, first_packet_ticks, loc,
                   resolutions_state, ledger_lock, tasks, resolver>>

\* maybe_emit_traffic_update_live, no packet seen yet or less than a second elapsed
EmitLiveSkip ==
    /\ pc = "emit_live"
    /\ CaptureThread \notin hosts_lock
    /\ pc' = "match"
    /\ UNCHANGED hosts_lock
    /\ UNCHANGED <<call, mod_vars, first_run, cs, mmdb_readers, cap, packet_res, first_packet_ticks,
                   info_traffic_msg, loc, resolutions_state, ledger_lock,
                   new_hosts_to_send, tasks, resolver, events,
                   interval_start>>

\* Err(NoMorePackets): the final snapshot
MatchNoMorePackets ==
    /\ pc = "match"
    /\ HostsLock(CaptureThread)
    /\ packet_res.tag = "NoMorePackets"
    /\ events' = Append(events,
                        TrafficUpdateMessage(info_traffic_msg, new_hosts_to_send, TRUE))
    /\ new_hosts_to_send' = <<>>
    /\ pc' = "wait"
    /\ hosts_lock' = {}
    /\ UNCHANGED <<call, mod_vars, first_run, cs, mmdb_readers, cap, packet_res, first_packet_ticks,
                   info_traffic_msg, loc, resolutions_state, ledger_lock, tasks, resolver, interval_start>>

\* any other Err of next_packet, or a packet whose headers do not decode
MatchNothing ==
    /\ pc = "match"
    /\ \/ packet_res.tag = "Err"
       \/ packet_res.tag = "Ok" /\ ~packet_res.packet.decoded
    /\ pc' = "next"
    /\ UNCHANGED <<call, mod_vars, hosts_lock, first_run, cs, mmdb_readers, cap, packet_res, first_packet_ticks,
                   info_traffic_msg, loc, resolutions_state, ledger_lock,
                   new_hosts_to_send, tasks, resolver, events,
                   interval_start>>

\* the mutation of maybe_emit_traffic_update_offline: a snapshot only when the
\* gap exceeds one second
EmitOfflineOnGapOnly(info_traffic, new_hosts, next_packet_timestamp) ==
    LET info0 == IF info_traffic.last_packet_timestamp = TimestampDefault
                 THEN [info_traffic EXCEPT !.last_packet_timestamp = next_packet_timestamp]
                 ELSE info_traffic
        diff_secs == next_packet_timestamp.secs - info0.last_packet_timestamp.secs
        t == take_but_leave_something(info0)
    IN IF diff_secs > 1
       THEN [emits |-> TRUE, info |-> t.left,
             events |-> <<TrafficUpdateMessage(t.taken, new_hosts, FALSE),
                          OfflineGapMessage(diff_secs - 1)>>]
       ELSE [emits |-> FALSE, info |-> info0, events |-> <<>>]

\* maybe_emit_traffic_update_offline: [emits, info (the aggregate left),
\* events (those emitted)]
maybe_emit_traffic_update_offline(info_traffic, new_hosts, next_packet_timestamp) ==
    LET info0 == IF info_traffic.last_packet_timestamp = TimestampDefault
                 THEN [info_traffic EXCEPT !.last_packet_timestamp = next_packet_timestamp]
                 ELSE info_traffic
        diff_secs == next_packet_timestamp.secs - info0.last_packet_timestamp.secs
        t == take_but_leave_something(info0)
    IN IF info0.last_packet_timestamp.secs < next_packet_timestamp.secs
       THEN [emits |-> TRUE, info |-> t.left,
             events |-> <<TrafficUpdateMessage(t.taken, new_hosts, FALSE)>>
                        \o (IF diff_secs > 1 THEN <<OfflineGapMessage(diff_secs - 1)>>
                            ELSE <<>>)]
       ELSE [emits |-> FALSE, info |-> info0, events |-> <<>>]

\* the start of the Ok(packet) arm for decoded headers: the offline emission
\* (File) or the start of the tick clock (Device), then last_packet_timestamp
PacketHead(packet) ==
    LET e == IF cs.kind = "File"
             THEN maybe_emit_traffic_update_offline(info_traffic_msg,
                                                    new_hosts_to_send, packet.ts)
             ELSE [emits |-> FALSE, info |-> info_traffic_msg, events |-> <<>>]
    IN [emits |-> e.emits,
        info |-> [e.info EXCEPT !.last_packet_timestamp = packet.ts],
        events |-> e.events]

\* the effects of PacketHead on the shared state
ApplyHead(h) ==
    /\ events' = events \o h.events
    /\ new_hosts_to_send' = IF h.emits THEN <<>> ELSE new_hosts_to_send
    /\ interval_start' = IF h.emits THEN AccountedLen ELSE interval_start
    /\ first_packet_ticks' = (first_packet_ticks \/ cs.kind = "Device")
    /\ IF h.emits THEN HostsLock(CaptureThread) /\ hosts_lock' = {}
       ELSE UNCHANGED hosts_lock

\* a skip that falls through to the refresh of the dropped-packet counter
MatchNoKeyStats ==
    /\ pc = "match"
    /\ packet_res.tag = "Ok" /\ packet_res.packet.decoded
    /\ ~analyze_headers(packet_res.packet.headers).some
    /\ \E dropped \in info_traffic_msg.dropped_packets..MaxDropped :
          LET h == PacketHead(packet_res.packet)
          IN /\ ApplyHead(h)
             /\ info_traffic_msg' = [h.info EXCEPT !.dropped_packets = dropped]
    /\ pc' = "next"
    /\ UNCHANGED <<call, mod_vars, first_run, cs, mmdb_readers, cap, packet_res, loc, resolutions_state,
                   ledger_lock, tasks, resolver>>

\* a decoded packet for which analyze_headers returns no key: continue
MatchNoKey ==
    /\ pc = "match"
    /\ packet_res.tag = "Ok" /\ packet_res.packet.decoded
    /\ ~analyze_headers(packet_res.packet.headers).some
    /\ LET h == PacketHead(packet_res.packet)
       IN /\ ApplyHead(h)
          /\ info_traffic_msg' = h.info
    /\ pc' = "next"
    /\ UNCHANGED <<call, mod_vars, first_run, cs, mmdb_readers, cap, packet_res, loc, resolutions_state,
                   ledger_lock, tasks, resolver>>

\* the aggregate after modify_or_insert_in_map and tot_data_info.add_packet
Accounted(info_traffic, a, addresses) ==
    LET m == modify_or_insert_in_map(info_traffic, a.key, addresses, a.icmp_type,
                                     a.arp_type, a.exchanged_bytes)
    IN [m EXCEPT !.info.tot_data_info =
                     add_packet(@, a.exchanged_bytes, m.traffic_direction)]

\* a decoded packet with a key: update the flow map and the totals
MatchKey ==
    /\ pc = "match"
    /\ packet_res.tag = "Ok" /\ packet_res.packet.decoded
    /\ analyze_headers(packet_res.packet.headers).some
    /\ \E h \in {PacketHead(packet_res.packet)} :
       \E a \in {analyze_headers(packet_res.packet.headers)} :
       \E m \in {Accounted(h.info, a, cs.addresses)} :
          /\ ApplyHead(h)
          /\ info_traffic_msg' = m.info
          /\ loc' = [LocDefault EXCEPT
                        !.key = a.key,
                        !.exchanged_bytes = a.exchanged_bytes,
                        !.traffic_direction = m.traffic_direction,
                        !.service = m.service,
                        !.address_to_lookup =
                            get_address_to_lookup(a.key, m.traffic_direction)]
    /\ pc' = "lock"
    /\ UNCHANGED <<call, mod_vars, first_run, cs, mmdb_readers, cap, packet_res, resolutions_state,
                   ledger_lock, tasks, resolver>>

\* resolutions_state.lock(): the capture thread blocks until the ledger is free
CaptureLock ==
    /\ pc = "lock"
    /\ ledger_lock = {}
    /\ ledger_lock' = {CaptureThread}
    /\ pc' = "ledger"
    /\ UNCHANGED <<call, mod_vars, hosts_lock, first_run, cs, mmdb_readers, cap, packet_res, first_packet_ticks,
                   info_traffic_msg, loc, resolutions_state, new_hosts_to_send, tasks, resolver, events, interval_start>>

\* a ledger match that does not look at addresses_waiting_resolution
LedgerCaseNoWaiting(ledger, address) ==
    <<FALSE, address \in DOMAIN ledger.addresses_resolved>>

\* a ledger match that does not look at addresses_resolved
LedgerCaseNoResolved(ledger, address) ==
    <<address \in DOMAIN ledger.addresses_waiting_resolution, FALSE>>

\* (r_dns_waiting_resolution, r_dns_already_resolved) for an address
LedgerCase(ledger, address) ==
    LET r_dns_already_resolved == address \in DOMAIN ledger.addresses_resolved
        r_dns_waiting_resolution ==
            /\ ~r_dns_already_resolved
            /\ address \in DOMAIN ledger.addresses_waiting_resolution
    IN <<r_dns_waiting_resolution, r_dns_already_resolved>>

\* a (false, false) arm that dispatches without recording the address
InsertWaitingNot(ledger, address, bytes, traffic_direction) == ledger

\* the (false, false) arm: the address enters addresses_waiting_resolution
InsertWaiting(ledger, address, bytes, traffic_direction) ==
    [ledger EXCEPT !.addresses_waiting_resolution =
        IF address \in DOMAIN @
        THEN [@ EXCEPT ![address] = new_with_first_packet(bytes, traffic_direction)]
        ELSE @ @@ (address :> new_with_first_packet(bytes, traffic_direction))]

\* a (true, false) arm that stores the packet in hand in place of the sum
UpdateWaitingReplace(ledger, address, bytes, traffic_direction) ==
    [ledger EXCEPT !.addresses_waiting_resolution =
        IF address \in DOMAIN @
        THEN [@ EXCEPT ![address] = new_with_first_packet(bytes, traffic_direction)]
        ELSE @]

\* the (true, false) arm: entry(address).and_modify(add_packet)
UpdateWaiting(ledger, address, bytes, traffic_direction) ==
    [ledger EXCEPT !.addresses_waiting_resolution =
        IF address \in DOMAIN @
        THEN [@ EXCEPT ![address] = add_packet(@, bytes, traffic_direction)]
        ELSE @]

\* a guard that is kept instead of dropped
NotDropped(holders, thread) == holders

\* the holders of the ledger lock after drop(resolutions_lock)
Dropped(holders, thread) == holders \ {thread}

\* the mutation of UpdateServices: the packet is counted, its bytes are not
UpdateServicesPacketsOnly(services, service, bytes, traffic_direction) ==
    IF service \in DOMAIN services
    THEN [services EXCEPT ![service] = add_packet(@, 0, traffic_direction)]
    ELSE services @@ (service :> new_with_first_packet(0, traffic_direction))

\* services.entry(service).and_modify(add_packet).or_insert_with(..)
UpdateServices(services, service, bytes, traffic_direction) ==
    IF service \in DOMAIN services
    THEN [services EXCEPT ![service] = add_packet(@, bytes, traffic_direction)]
    ELSE services @@ (service :> new_with_first_packet(bytes, traffic_direction))

\* the end of the Ok(packet) arm, from the aggregate `info`: count the packet
\* for its service, then read the capture's drop counter (cap.stats() may
\* fail, and its counter never decreases); back to next_packet
FinishPacket(info) ==
    /\ \E dropped \in info.dropped_packets..MaxDropped :
          info_traffic_msg' =
              [info EXCEPT
                  !.services = UpdateServices(@, loc.service, loc.exchanged_bytes,
                                              loc.traffic_direction),
                  !.dropped_packets = dropped]
    /\ loc' = LocDefault
    /\ pc' = "next"

\* first occurrence of the address: insert it as waiting, drop the lock
LedgerFirst ==
    /\ pc = "ledger"
    /\ LedgerCase(resolutions_state, loc.address_to_lookup) = <<FALSE, FALSE>>
    /\ resolutions_state' = InsertWaiting(resolutions_state, loc.address_to_lookup,
                                          loc.exchanged_bytes, loc.traffic_direction)
    /\ ledger_lock' = Dropped(ledger_lock, CaptureThread)
    /\ pc' = "spawn"
    /\ UNCHANGED <<call, mod_vars, hosts_lock, first_run, cs, mmdb_readers, cap, packet_res, first_packet_ticks,
                   info_traffic_msg, loc, new_hosts_to_send, tasks,
                   resolver, events, interval_start>>

\* the address is waiting: add the packet to its waiting data, drop the lock
LedgerWaiting ==
    /\ pc = "ledger"
    /\ LedgerCase(resolutions_state, loc.address_to_lookup) = <<TRUE, FALSE>>
    /\ resolutions_state' = UpdateWaiting(resolutions_state, loc.address_to_lookup,
                                          loc.exchanged_bytes, loc.traffic_direction)
    /\ ledger_lock' = Dropped(ledger_lock, CaptureThread)
    /\ FinishPacket(info_traffic_msg)
    /\ UNCHANGED <<call, mod_vars, hosts_lock, first_run, cs, mmdb_readers, cap, packet_res, first_packet_ticks,
                   new_hosts_to_send, tasks, resolver, events, interval_start>>

\* the address is resolved: read its host, drop the lock
LedgerResolved ==
    /\ pc = "ledger"
    /\ LedgerCase(resolutions_state, loc.address_to_lookup)[2]
    /\ loc' = [loc EXCEPT !.host =
                  IF loc.address_to_lookup \in DOMAIN resolutions_state.addresses_resolved
                  THEN resolutions_state.addresses_resolved[loc.address_to_lookup]
                  ELSE HostDefault]
    /\ ledger_lock' = Dropped(ledger_lock, CaptureThread)
    /\ pc' = "hosts"
    /\ UNCHANGED <<call, mod_vars, hosts_lock, first_run, cs, mmdb_readers, cap, packet_res, first_packet_ticks,
                   info_traffic_msg, resolutions_state, new_hosts_to_send, tasks, resolver, events, interval_start>>

\* the thread that thread::Builder::spawn starts: the arguments moved into
\* reverse_dns_lookup, and the values it computes on its way
NewTask(key, traffic_direction, interface_addresses, readers) ==
    [key |-> key, traffic_direction |-> traffic_direction,
     interface_addresses |-> interface_addresses, mmdb_readers |-> readers,
     pc |-> "lookup", rdns |-> RdnsName(""), new_host |-> HostDefault,
     other_data |-> DataInfoDefault, found |-> TRUE]

\* the threads after thread::Builder::spawn, whose Result is dropped: a
\* failed spawn starts nothing
Spawned(ts, ok, task) == IF ok THEN Append(ts, task) ELSE ts

\* launch the thread resolving the host name
CaptureSpawn ==
    /\ pc = "spawn"
    /\ \E ok \in BOOLEAN :
          tasks' = Spawned(tasks, ok,
                           NewTask(loc.key, loc.traffic_direction, cs.addresses,
                                   mmdb_readers))
    /\ FinishPacket(info_traffic_msg)
    /\ UNCHANGED <<call, mod_vars, hosts_lock, first_run, cs, mmdb_readers, cap, packet_res, first_packet_ticks,
                   resolutions_state, ledger_lock, new_hosts_to_send, resolver,
                   events, interval_start>>

\* a hosts update that computes the derived fields anew for every packet
UpdateHostsRecompute(hosts, host, address_to_lookup, addresses, bytes, traffic_direction) ==
    IF host \in DOMAIN hosts
    THEN [hosts EXCEPT ![host] =
             DataInfoHost(add_packet(@.data_info, bytes, traffic_direction),
                          address_to_lookup, addresses, traffic_direction)]
    ELSE hosts @@
         (host :> DataInfoHost(new_with_first_packet(bytes, traffic_direction),
                               address_to_lookup, addresses, traffic_direction))

\* the mutation of UpdateHosts: the entry of a new host starts empty
UpdateHostsForgetFirst(hosts, host, address_to_lookup, addresses, bytes, traffic_direction) ==
    IF host \in DOMAIN hosts
    THEN [hosts EXCEPT ![host].data_info = add_packet(@, bytes, traffic_direction)]
    ELSE hosts @@
         (host :> DataInfoHost(DataInfoDefault, address_to_lookup, addresses,
                               traffic_direction))

\* hosts.entry(host).and_modify(add_packet).or_insert_with(DataInfoHost {..})
UpdateHosts(hosts, host, address_to_lookup, addresses, bytes, traffic_direction) ==
    IF host \in DOMAIN hosts
    THEN [hosts EXCEPT ![host].data_info = add_packet(@, bytes, traffic_direction)]
    ELSE hosts @@
         (host :> DataInfoHost(new_with_first_packet(bytes, traffic_direction),
                               address_to_lookup, addresses, traffic_direction))

\* the (_, true) arm after the lock is dropped: update the host's data
CaptureHosts ==
    /\ pc = "hosts"
    /\ FinishPacket([info_traffic_msg EXCEPT !.hosts =
                        UpdateHosts(@, loc.host, loc.address_to_lookup, cs.addresses,
                                    loc.exchanged_bytes, loc.traffic_direction)])
    /\ UNCHANGED <<call, mod_vars, hosts_lock, first_run, cs, mmdb_readers, cap, packet_res, first_packet_ticks,
                   resolutions_state, ledger_lock, new_hosts_to_send,
                   tasks, resolver, events, interval_start>>

\* end of source: once no resolution thread is running, emit the pending hosts
FinalBatch ==
    /\ pc = "wait"
    /\ HostsLock(CaptureThread)
    /\ Running = {}
    /\ events' = Append(events, PendingHostsMessage(new_hosts_to_send))
    /\ new_hosts_to_send' = <<>>
    /\ pc' = "done"
    /\ hosts_lock' = {}
    /\ UNCHANGED <<call, mod_vars, first_run, cs, mmdb_readers, cap, packet_res, first_packet_ticks,
                   info_traffic_msg, loc, resolutions_state, ledger_lock, tasks, resolver, interval_start>>

(***************************************************************************)
(* A resolution task: reverse_dns_lookup                                   *)
(***************************************************************************)
TaskAddress(t) == get_address_to_lookup(tasks[t].key, tasks[t].traffic_direction)

\* lookup_addr and the geo/ASN lookups return; the new Host is built
TaskLookup(t) ==
    /\ tasks[t].pc = "lookup"
    /\ LET address_to_lookup == TaskAddress(t)
       IN \E lookup_result \in LookupResults :
            /\ address_to_lookup \in DOMAIN resolver
                   => lookup_result = resolver[address_to_lookup]
            /\ resolver' = IF address_to_lookup \in DOMAIN resolver THEN resolver
                           ELSE resolver @@ (address_to_lookup :> lookup_result)
            /\ LET rdns == RdnsOf(lookup_result, address_to_lookup)
                   country == get_country(address_to_lookup, tasks[t].mmdb_readers)
                   asn == get_asn(address_to_lookup, tasks[t].mmdb_readers)
               IN tasks' = [tasks EXCEPT ![t].rdns = rdns,
                                         ![t].new_host = NewHost(rdns, asn, country),
                                         ![t].pc = "lock"]
    /\ UNCHANGED <<call, mod_vars, hosts_lock, first_run, cs, mmdb_readers, cap, pc, packet_res, first_packet_ticks,
                   info_traffic_msg, loc, resolutions_state, ledger_lock,
                   new_hosts_to_send, events, interval_start>>

\* resolutions_state.lock(): the task blocks until the ledger is free
TaskLock(t) ==
    /\ tasks[t].pc = "lock"
    /\ ledger_lock = {}
    /\ ledger_lock' = {t}
    /\ tasks' = [tasks EXCEPT ![t].pc = "update"]
    /\ UNCHANGED <<call, mod_vars, hosts_lock, first_run, cs, mmdb_readers, cap, pc, packet_res, first_packet_ticks,
                   info_traffic_msg, loc, resolutions_state, new_hosts_to_send, resolver, events, interval_start>>

\* a task that inserts the resolved host and leaves the waiting entry behind
ResolveKeepWaiting(ledger, address, new_host) ==
    [ledger EXCEPT !.addresses_resolved =
        IF address \in DOMAIN @ THEN [@ EXCEPT ![address] = new_host]
        ELSE @ @@ (address :> new_host)]

\* the ledger after the task's remove(..) and insert(..)
Resolve(ledger, address, new_host) ==
    [addresses_waiting_resolution |->
        [a \in DOMAIN ledger.addresses_waiting_resolution \ {address} |->
            ledger.addresses_waiting_resolution[a]],
     addresses_resolved |->
        IF address \in DOMAIN ledger.addresses_resolved
        THEN [ledger.addresses_resolved EXCEPT ![address] = new_host]
        ELSE ledger.addresses_resolved @@ (address :> new_host)]

\* remove(&address_to_lookup).unwrap_or_default()
RemovedData(ledger, address) ==
    IF address \in DOMAIN ledger.addresses_waiting_resolution
    THEN ledger.addresses_waiting_resolution[address]
    ELSE DataInfoDefault

\* under the lock: take the waiting data, insert the resolved host, drop the lock
TaskUpdate(t) ==
    /\ tasks[t].pc = "update"
    /\ LET address_to_lookup == TaskAddress(t)
       IN /\ tasks' = [tasks EXCEPT
                          ![t].other_data = RemovedData(resolutions_state, address_to_lookup),
                          ![t].found = address_to_lookup \in
                               DOMAIN resolutions_state.addresses_waiting_resolution,
                          ![t].pc = "push"]
          /\ resolutions_state' =
                 Resolve(resolutions_state, address_to_lookup, tasks[t].new_host)
    /\ ledger_lock' = Dropped(ledger_lock, t)
    /\ UNCHANGED <<call, mod_vars, hosts_lock, first_run, cs, mmdb_readers, cap, pc, packet_res, first_packet_ticks,
                   info_traffic_msg, loc, new_hosts_to_send, resolver,
                   events, interval_start>>

\* the HostMessage of a task
HostMessage(task) ==
    LET address_to_lookup == get_address_to_lookup(task.key, task.traffic_direction)
    IN [host |-> task.new_host,
        data_info_host |-> DataInfoHost(task.other_data, address_to_lookup,
                                        task.interface_addresses, task.traffic_direction),
        address_to_lookup |-> address_to_lookup,
        rdns |-> task.rdns]

\* a task that merges its HostMessage into the hosts of the aggregate itself
AggregateMerged(info_traffic, host_message) ==
    [info_traffic EXCEPT !.hosts =
        IF host_message.host \in DOMAIN @ THEN @
        ELSE @ @@ (host_message.host :> host_message.data_info_host)]

\* the aggregate after a task has handed over its HostMessage: the task has
\* no reference to info_traffic_msg, its message goes to the frontend only
AggregateAfterPush(info_traffic, host_message) == info_traffic

\* new_hosts_to_send.lock().unwrap().push(msg_data), then the event
\* "new_host_resolved" is emitted and the thread ends
TaskPush(t) ==
    /\ tasks[t].pc = "push"
    /\ HostsLock(t)
    /\ new_hosts_to_send' = Append(new_hosts_to_send, HostMessage(tasks[t]))
    /\ info_traffic_msg' = AggregateAfterPush(info_traffic_msg, HostMessage(tasks[t]))
    /\ tasks' = [tasks EXCEPT ![t].pc = "done"]
    /\ hosts_lock' = {}
    /\ UNCHANGED <<call, mod_vars, first_run, cs, mmdb_readers, cap, pc, packet_res, first_packet_ticks,
                   loc, resolutions_state, ledger_lock, resolver, events,
                   interval_start>>

CaptureStep ==
    \/ NextPacket \/ EmitLiveTick \/ EmitLiveSkip
    \/ MatchNoMorePackets \/ MatchNothing \/ MatchNoKey \/ MatchKey
    \/ CaptureLock \/ LedgerFirst \/ LedgerWaiting \/ LedgerResolved
    \/ CaptureSpawn \/ CaptureHosts \/ FinalBatch

TaskStep(t) ==
    \/ TaskLookup(t) \/ TaskLock(t) \/ TaskUpdate(t)
    \/ TaskPush(t)

Next == CaptureStep \/ \E t \in DOMAIN tasks : TaskStep(t)

Spec == Init /\ [][Next]_vars

(***************************************************************************)
(* Vocabulary of the properties                                            *)
(***************************************************************************)
WaitingAddresses == DOMAIN resolutions_state.addresses_waiting_resolution
ResolvedAddresses == DOMAIN resolutions_state.addresses_resolved

\* the resolution threads dispatched for an address
TasksFor(a) == {t \in DOMAIN tasks : TaskAddress(t) = a}

\* those of them that have not yet performed their ledger update
InFlight(a) == {t \in TasksFor(a) : tasks[t].pc \in {"lookup", "lock", "update"}}

\* the addresses some thread was dispatched for
TaskAddresses == {TaskAddress(t) : t \in DOMAIN tasks}

(***************************************************************************)
(* The resolution ledger                                                   *)
(***************************************************************************)
\* C1: in every reachable state of the ledger, no IP address is a key of both
\* addresses_waiting_resolution and addresses_resolved
C1_WaitingResolvedDisjoint == WaitingAddresses \cap ResolvedAddresses = {}

\* one address has been resolved by its task while another is still waiting
C1_Witness ==
    /\ ResolvedAddresses # {}
    /\ WaitingAddresses # {}
    /\ \E t \in DOMAIN tasks : tasks[t].pc \in {"push", "done"}

\* C2: for every IP address, at most one resolution thread is dispatched
\* during a capture session, however many packets and flows reference it
C2_OneTaskPerAddress == \A a \in TaskAddresses : Cardinality(TasksFor(a)) <= 1

\* two packets have referenced an address that is still waiting, and one
\* thread was dispatched for it
C2_Witness ==
    \E a \in WaitingAddresses :
        /\ tot_packets(resolutions_state.addresses_waiting_resolution[a]) = 2
        /\ Cardinality(TasksFor(a)) = 1

\* C3: an address in addresses_resolved stays there with the same Host for
\* the rest of the session, and is never again in addresses_waiting_resolution
C3_ResolvedIsFinal ==
    [][\A a \in ResolvedAddresses :
          /\ a \in DOMAIN resolutions_state'.addresses_resolved
          /\ resolutions_state'.addresses_resolved[a] =
                 resolutions_state.addresses_resolved[a]
          /\ a \notin DOMAIN resolutions_state'.addresses_waiting_resolution]_vars

\* a packet for an address already resolved has gone through the ledger match
\* and been counted for its host
C3_Witness ==
    /\ pc = "next"
    /\ \E h \in DOMAIN info_traffic_msg.hosts :
          \E a \in ResolvedAddresses : resolutions_state.addresses_resolved[a] = h

\* C4 as stated: an address is in addresses_waiting_resolution if and only
\* if exactly one thread dispatched for it has not yet performed its ledger
\* update
C4_WaitingIffInFlight ==
    \A a \in WaitingAddresses \cup TaskAddresses :
        a \in WaitingAddresses <=> Cardinality(InFlight(a)) = 1

\* C4: the waiting entry of an address is inserted, under the ledger lock,
\* before its thread is spawned: every thread that has not yet performed its
\* ledger update has its address in addresses_waiting_resolution, no address
\* has two such threads, a waiting address has one such thread unless its
\* thread has not been started (the spawn is still to come, or it failed), and
\* the thread's remove always finds the entry
C4_WaitingCoversInFlight ==
    /\ \A a \in WaitingAddresses \cup TaskAddresses :
          /\ Cardinality(InFlight(a)) <= 1
          /\ Cardinality(InFlight(a)) = 1 => a \in WaitingAddresses
          /\ a \in WaitingAddresses =>
                Cardinality(InFlight(a)) = 1 \/ TasksFor(a) = {}
    /\ pc = "spawn" => /\ loc.address_to_lookup \in WaitingAddresses
                       /\ CaptureThread \notin ledger_lock
    /\ \A t \in DOMAIN tasks : tasks[t].found

\* a thread has removed the waiting entry of its address, which had
\* accumulated two packets, while another address is waiting for its thread
C4_Witness ==
    \E t \in DOMAIN tasks :
        /\ tasks[t].pc = "push"
        /\ tasks[t].found
        /\ tot_packets(tasks[t].other_data) >= 1
        /\ \E a \in WaitingAddresses : Cardinality(InFlight(a)) = 1

(***************************************************************************)
(* The aggregation map                                                     *)
(***************************************************************************)
\* number of packets with key k among packets from+1 .. to of the source
CountKey(k, from, to) ==
    Cardinality({i \in (from + 1)..to :
                    /\ cap.tape[i].decoded
                    /\ analyze_headers(cap.tape[i].headers).some
                    /\ analyze_headers(cap.tape[i].headers).key = k})

C9_AggregateOwnedByCapture ==
    [][pc' = pc =>
          /\ info_traffic_msg' = info_traffic_msg
          /\ UNCHANGED <<cs, cap, packet_res, first_packet_ticks, loc, events,
                         interval_start>>]_vars

\* a resolution thread has run to its end while the aggregate holds flows
C9_Witness ==
    /\ \E t \in DOMAIN tasks : tasks[t].pc = "done"
    /\ DOMAIN info_traffic_msg.map # {}
    /\ pc # "done"

\* C10: the ledger lock is never held during a blocking lookup or a thread
\* spawn: a resolution thread does not hold it while in its lookup, and the
\* capture thread has released it when it spawns a thread and when it
\* touches the hosts map
C10_NoLockWhileBlocking ==
    /\ \A t \in DOMAIN tasks : tasks[t].pc = "lookup" => t \notin ledger_lock
    /\ pc \in {"spawn", "hosts"} => CaptureThread \notin ledger_lock
    /\ Cardinality(ledger_lock) <= 1

\* the capture thread is about to spawn a thread while another one is in its
\* lookup
C10_Witness ==
    /\ pc = "spawn"
    /\ \E t \in DOMAIN tasks : tasks[t].pc = "lookup"

(***************************************************************************)
(* Replay: the same packets through a second, fresh pipeline               *)
(***************************************************************************)
\* the packet and byte counters of an aggregate
AggregateCounters(info_traffic) ==
    [map |-> [k \in DOMAIN info_traffic.map |->
                 <<info_traffic.map[k].transmitted_packets,
                   info_traffic.map[k].transmitted_bytes>>],
     services |-> info_traffic.services,
     hosts |-> [h \in DOMAIN info_traffic.hosts |-> info_traffic.hosts[h].data_info],
     tot_data_info |-> info_traffic.tot_data_info]

IsTrafficUpdate(e) == e.name = "traffic_update"

\* the counters of every snapshot the run has emitted, the final one included
RunCounters ==
    LET updates == SelectSeq(events, IsTrafficUpdate)
    IN [i \in DOMAIN updates |-> AggregateCounters(updates[i].info_traffic)]

\* the same counters without the per-host ones
WithoutHosts(counters) ==
    [i \in DOMAIN counters |-> [counters[i] EXCEPT !.hosts = EmptyMap]]

\* a capture of a file has ended: a fresh pipeline is started on the same
\* file, with the same databases and a resolver that gives the same answers
Replay ==
    /\ pc = "done"
    /\ ~first_run.done
    /\ first_run' = [done |-> TRUE, counters |-> RunCounters]
    /\ cap' = [cap EXCEPT !.pos = 0]
    /\ pc' = "next"
    /\ packet_res' = NoPacket
    /\ first_packet_ticks' = FALSE
    /\ info_traffic_msg' = InfoTrafficDefault
    /\ loc' = LocDefault
    /\ resolutions_state' = LedgerDefault
    /\ ledger_lock' = {}
    /\ hosts_lock' = {}
    /\ new_hosts_to_send' = <<>>
    /\ tasks' = <<>>
    /\ events' = <<>>
    /\ interval_start' = 0
    /\ UNCHANGED <<cs, mmdb_readers, resolver, call, mod_vars>>

InitReplay == Init /\ cs.kind = "File"

NextReplay ==
    \/ NextPacket
    \/ MatchNoMorePackets \/ MatchNothing \/ MatchNoKey \/ MatchKey
    \/ CaptureLock \/ LedgerFirst \/ LedgerWaiting \/ LedgerResolved
    \/ CaptureSpawn \/ CaptureHosts \/ FinalBatch
    \/ \E t \in DOMAIN tasks : TaskStep(t)
    \/ Replay

SpecReplay == InitReplay /\ [][NextReplay]_vars

\* C8: the same ordered packet sequence through two fresh pipelines yields
\* identical per-flow, per-service, per-host and total counters in both runs,
\* however the resolution threads are scheduled
C8_ReplayIdentical ==
    (first_run.done /\ pc = "done") => RunCounters = first_run.counters

\* the per-flow, per-service and total counters of the two runs are identical
ReplayIdenticalWithoutHosts ==
    (first_run.done /\ pc = "done") =>
        WithoutHosts(RunCounters) = WithoutHosts(first_run.counters)

\* a second run has ended after a first one that counted packets for a host
ReplayWitness ==
    /\ first_run.done
    /\ pc = "done"
    /\ \E i \in DOMAIN first_run.counters : DOMAIN first_run.counters[i].hosts # {}

(***************************************************************************)
(* Host accounting                                                         *)
(***************************************************************************)
\* number of delivered packets that have gone through the ledger match
LedgerLen ==
    IF pc \in {"emit_live", "match", "lock", "ledger"} /\ packet_res.tag = "Ok"
    THEN cap.pos - 1 ELSE cap.pos

\* packet i of the source has a flow key
HasKey(i) ==
    cap.tape[i].decoded /\ analyze_headers(cap.tape[i].headers).some
KeyOf(i) == analyze_headers(cap.tape[i].headers).key
BytesOf(i) == analyze_headers(cap.tape[i].headers).exchanged_bytes
\* the direction of the flow of packet i, an accounted packet
DirectionOf(i) == info_traffic_msg.map[KeyOf(i)].traffic_direction

\* the packets among 1..n whose address to look up is a, in direction d
PacketsFor(a, n, d) ==
    {i \in 1..n : /\ HasKey(i)
                  /\ DirectionOf(i) = d
                  /\ get_address_to_lookup(KeyOf(i), d) = a}

\* the sum of the packets among 1..n whose address to look up is a
SumOfPackets(a, n) ==
    [incoming_packets |-> Cardinality(PacketsFor(a, n, Incoming)),
     outgoing_packets |-> Cardinality(PacketsFor(a, n, Outgoing)),
     incoming_bytes |-> SumOver([i \in 1..n |-> BytesOf(i)], PacketsFor(a, n, Incoming)),
     outgoing_bytes |-> SumOver([i \in 1..n |-> BytesOf(i)], PacketsFor(a, n, Outgoing))]

\* C11: for a packet whose address to look up is waiting, the capture loop
\* adds one packet and the packet's bytes to the waiting DataInfo of the
\* address in the flow's direction, dispatches no thread and leaves the
\* address waiting; the DataInfo a resolution thread removes and hands over
\* in its HostMessage is the sum of all packets for the address that went
\* through the ledger before the thread's update, the first one included
C11_WaitingAccumulates ==
    [][/\ (/\ pc = "ledger" /\ pc' # "ledger"
           /\ loc.address_to_lookup \notin ResolvedAddresses
           /\ loc.address_to_lookup \in WaitingAddresses) =>
             LET a == loc.address_to_lookup
                 before == resolutions_state.addresses_waiting_resolution[a]
                 out == loc.traffic_direction = Outgoing
             IN /\ tasks' = tasks
                /\ a \in DOMAIN resolutions_state'.addresses_waiting_resolution
                /\ a \notin DOMAIN resolutions_state'.addresses_resolved
                /\ resolutions_state'.addresses_waiting_resolution[a] =
                      [incoming_packets |-> before.incoming_packets + (IF out THEN 0 ELSE 1),
                       outgoing_packets |-> before.outgoing_packets + (IF out THEN 1 ELSE 0),
                       incoming_bytes |-> before.incoming_bytes
                                          + (IF out THEN 0 ELSE loc.exchanged_bytes),
                       outgoing_bytes |-> before.outgoing_bytes
                                          + (IF out THEN loc.exchanged_bytes ELSE 0)]
       /\ \A t \in DOMAIN tasks :
             (tasks[t].pc = "update" /\ tasks'[t].pc = "push") =>
                /\ tasks'[t].other_data = SumOfPackets(TaskAddress(t), LedgerLen)
                /\ HostMessage(tasks'[t]).data_info_host.data_info =
                       SumOfPackets(TaskAddress(t), LedgerLen)]_vars

\* a thread has handed over the sum of two packets: the one that made the
\* address waiting and one that found it waiting
C11_Witness ==
    \E t \in DOMAIN tasks :
        /\ tasks[t].pc \in {"push", "done"}
        /\ tot_packets(tasks[t].other_data) = 2

\* the derived fields of a hosts entry
DerivedFields(e) ==
    <<e.is_favorite, e.is_loopback, e.is_local, e.is_bogon, e.traffic_type>>

\* the derived fields computed for the packet in hand
DerivedFieldsNow ==
    <<FALSE,
      is_loopback(loc.address_to_lookup),
      is_local_connection(loc.address_to_lookup, cs.addresses),
      is_bogon(loc.address_to_lookup),
      get_traffic_type(loc.address_to_lookup, cs.addresses, loc.traffic_direction)>>

\* the packet in hand as a DataInfo
PacketData ==
    [incoming_packets |-> IF loc.traffic_direction = Outgoing THEN 0 ELSE 1,
     outgoing_packets |-> IF loc.traffic_direction = Outgoing THEN 1 ELSE 0,
     incoming_bytes |-> IF loc.traffic_direction = Outgoing THEN 0 ELSE loc.exchanged_bytes,
     outgoing_bytes |-> IF loc.traffic_direction = Outgoing THEN loc.exchanged_bytes ELSE 0]

\* C12: a packet whose address to look up is resolved is merged into the
\* hosts entry keyed by the resolved Host; the derived fields of the entry
\* (is_favorite, is_loopback, is_local, is_bogon, traffic_type) are set when
\* the entry is created and left unchanged by every later packet, whatever
\* the packet's direction and the interface addresses by then
C12_HostsMerge ==
    [][(pc = "hosts" /\ pc' # "hosts") =>
          LET h == loc.host
              hosts == info_traffic_msg.hosts
              after == info_traffic_msg'.hosts
          IN /\ loc.address_to_lookup \in ResolvedAddresses
             /\ h = resolutions_state.addresses_resolved[loc.address_to_lookup]
             /\ DOMAIN after = DOMAIN hosts \cup {h}
             /\ \A g \in DOMAIN hosts \ {h} : after[g] = hosts[g]
             /\ h \in DOMAIN hosts =>
                   /\ DerivedFields(after[h]) = DerivedFields(hosts[h])
                   /\ after[h].data_info = refresh(hosts[h].data_info, PacketData)
             /\ h \notin DOMAIN hosts =>
                   /\ DerivedFields(after[h]) = DerivedFieldsNow
                   /\ after[h].data_info = PacketData]_vars

\* a later packet of a host is about to be merged into its entry, under
\* interface addresses for which the derived fields would be computed
\* differently
C12_Witness ==
    /\ pc = "hosts"
    /\ loc.host \in DOMAIN info_traffic_msg.hosts
    /\ DerivedFields(info_traffic_msg.hosts[loc.host]) # DerivedFieldsNow

(***************************************************************************)
(* Progress of the resolutions                                             *)
(***************************************************************************)
\* the steps of a capture of a file
NextFile ==
    \/ NextPacket
    \/ MatchNoMorePackets \/ MatchNothing \/ MatchNoKey \/ MatchKey
    \/ CaptureLock \/ LedgerFirst \/ LedgerWaiting \/ LedgerResolved
    \/ CaptureSpawn \/ CaptureHosts \/ FinalBatch
    \/ \E t \in DOMAIN tasks : TaskStep(t)

InitFair == Init /\ cs.kind = "File" /\ mmdb_readers = "None"

\* a capture of a file without geo databases, scheduled fairly: a thread
\* that can take a step is eventually run, and every lookup returns
\* (TaskLookup is a step of the thread); the threads of such a capture all
\* being finite, fairness of the whole is fairness to each of them
SpecFair ==
    /\ InitFair
    /\ [][NextFile]_vars
    /\ WF_vars(NextFile)

\* the addresses of the sample packets
SampleAddresses == {LocalIp, RemoteA, RemoteB}

\* C13: every address inserted into addresses_waiting_resolution is
\* eventually moved to addresses_resolved, under fair scheduling and every
\* lookup returning
C13_EventuallyResolved ==
    \A a \in SampleAddresses : (a \in WaitingAddresses) ~> (a \in ResolvedAddresses)

\* every address a resolution thread was started for is eventually resolved,
\* with the textual form of the address as the name when the reverse-DNS
\* lookup failed or returned an empty name
ResolvedOnceStarted ==
    /\ \A a \in SampleAddresses : (TasksFor(a) # {}) ~> (a \in ResolvedAddresses)
    /\ [](\A a \in ResolvedAddresses :
             (a \in DOMAIN resolver /\ (~resolver[a].ok \/ resolver[a].name = "")) =>
                 resolutions_state.addresses_resolved[a].domain = to_string(a))

(***************************************************************************)
(* Emission of the newly resolved hosts                                    *)
(***************************************************************************)
\* the places (event, index) at which the HostMessage of an address has been
\* emitted in a new_hosts list
Deliveries(a) ==
    {<<i, j>> \in (DOMAIN events) \X (1..MaxConversation) :
        /\ j \in DOMAIN events[i].new_hosts
        /\ events[i].new_hosts[j].address_to_lookup = a}

\* the places at which it is in the buffer
Buffered(a) ==
    {j \in DOMAIN new_hosts_to_send : new_hosts_to_send[j].address_to_lookup = a}

\* every HostMessage emitted or buffered
Messages ==
    {events[i].new_hosts[j] :
        <<i, j>> \in {<<i, j>> \in (DOMAIN events) \X (1..MaxConversation) :
                         j \in DOMAIN events[i].new_hosts}}
    \cup Range(new_hosts_to_send)

\* C14: every HostMessage a resolution thread has appended to the buffer is
\* either still in the buffer, once, or in the new_hosts list of exactly one
\* emitted event, once; nothing else is ever in the buffer or emitted, and
\* when the capture of a file has ended, the buffer is empty
C14_HostsDeliveredOnce ==
    /\ \A t \in DOMAIN tasks :
          Cardinality(Deliveries(TaskAddress(t))) + Cardinality(Buffered(TaskAddress(t)))
              = IF tasks[t].pc = "done" THEN 1 ELSE 0
    /\ \A m \in Messages :
          \E t \in DOMAIN tasks : tasks[t].pc = "done" /\ m = HostMessage(tasks[t])
    /\ pc = "done" => new_hosts_to_send = <<>>

\* one host was delivered with a snapshot and another is in the buffer
C14_Witness ==
    /\ \E i \in DOMAIN events :
          events[i].name = "traffic_update" /\ events[i].new_hosts # <<>>
    /\ new_hosts_to_send # <<>>

(***************************************************************************)
(* End of an offline capture                                               *)
(***************************************************************************)
\* the final snapshots emitted so far
FinalSnapshots == {i \in DOMAIN events : events[i].is_final}

SkippedPacket ==
    /\ pc = "match" /\ pc' = "next"
    /\ packet_res.tag = "Ok"
    /\ \/ ~packet_res.packet.decoded
       \/ ~analyze_headers(packet_res.packet.headers).some

\* the counters of an aggregate: flow map, services, hosts, totals
Counters(info) == [map |-> info.map, services |-> info.services,
                   hosts |-> info.hosts, tot_data_info |-> info.tot_data_info]

\* every counter of the aggregate is zero and every entry is kept
AllDrained(before, after) ==
    /\ DOMAIN after.map = DOMAIN before.map
    /\ DOMAIN after.services = DOMAIN before.services
    /\ DOMAIN after.hosts = DOMAIN before.hosts
    /\ \A k \in DOMAIN after.map :
          after.map[k].transmitted_bytes = 0 /\ after.map[k].transmitted_packets = 0
    /\ \A k \in DOMAIN after.services : after.services[k] = DataInfoDefault
    /\ \A k \in DOMAIN after.hosts : after.hosts[k].data_info = DataInfoDefault
    /\ after.tot_data_info = DataInfoDefault

\* the offline capture starts a new interval with this packet
NewSecond(packet) ==
    /\ cs.kind = "File"
    /\ info_traffic_msg.last_packet_timestamp # TimestampDefault
    /\ info_traffic_msg.last_packet_timestamp.secs < packet.ts.secs

Bytes3 == <<192, 168, 1>>
Bytes4 == <<192, 168, 1, 10>>
Bytes16 == [i \in 1..16 |-> IF i = 1 THEN 254 ELSE IF i = 2 THEN 128 ELSE i]
Ipv6A == [v |-> 6, o |-> Bytes16]
Ipv6B == [v |-> 6, o |-> [i \in 1..16 |-> IF i = 1 THEN 32 ELSE i]]

\* payload lengths of an IPv6 header (u16), the largest ones included
SamplePayloadLengths == {0, 1000, 65495, 65496, 65535}

SampleNetHeaders ==
    {NetNone, NetIpv4(LocalIp, RemoteA, 60)}
    \cup {NetIpv6(Ipv6A, Ipv6B, n) : n \in SamplePayloadLengths}
    \cup {NetArp(ty, sender, target, 28, op) :
             ty \in {"IPV4", "IPV6", "ARP"}, sender \in {Bytes3, Bytes4, Bytes16},
             target \in {Bytes3, Bytes4, Bytes16}, op \in {"Request", "Reply"}}

SampleTransportHeaders ==
    {TransportNone, TransportTcp(50000, 443), TransportUdp(50000, 53),
     TransportIcmpv4("EchoRequest"), TransportIcmpv6("EchoRequest")}

\* the headers get_sniffable_headers can return
AllHeaders ==
    {Headers(link, net, transport) :
        link \in {LinkEthernet2, LinkNone}, net \in SampleNetHeaders,
        transport \in SampleTransportHeaders}

\* the capture loop holds the first packet of the source, decoded
InitHeaders ==
    /\ cs \in {[kind |-> "File", addresses |-> <<>>],
               [kind |-> "Device", addresses |-> IfaceFirst]}
    /\ mmdb_readers = "None"
    /\ \E h \in AllHeaders :
          LET p == [decoded |-> TRUE, headers |-> h, ts |-> [secs |-> 1, usecs |-> 0]]
          IN /\ cap = [tape |-> <<p>>, pos |-> 1, eof |-> FALSE]
             /\ packet_res = OkPacket(p)
    /\ pc = "match"
    /\ first_packet_ticks = FALSE
    /\ info_traffic_msg = InfoTrafficDefault
    /\ loc = LocDefault
    /\ resolutions_state = LedgerDefault
    /\ ledger_lock = {}
    /\ hosts_lock = {}
    /\ new_hosts_to_send = <<>>
    /\ tasks = <<>>
    /\ resolver = EmptyMap
    /\ events = <<>>
    /\ interval_start = 0
    /\ first_run = [done |-> FALSE, counters |-> <<>>]
    /\ call = NoCall
    /\ InitMod

\* 40 + ipv6header.payload_length exceeds u16::MAX
ipv6_overflows(payload_length) == 40 + payload_length > 65535

\* the addition overflows in a build with overflow checks: the capture
\* thread panics inside analyze_network_header (in a build without them the
\* sum wraps and MatchKey goes on with ipv6_exchanged_bytes)
MatchPanic ==
    /\ pc = "match"
    /\ packet_res.tag = "Ok" /\ packet_res.packet.decoded
    /\ packet_res.packet.headers.net.kind = "Ipv6"
    /\ ipv6_overflows(packet_res.packet.headers.net.len)
    /\ LET h == PacketHead(packet_res.packet)
       IN /\ ApplyHead(h)
          /\ info_traffic_msg' = h.info
    /\ pc' = "panicked"
    /\ UNCHANGED <<call, mod_vars, first_run, cs, mmdb_readers, cap, packet_res, loc, resolutions_state,
                   ledger_lock, tasks, resolver>>

\* the continuations of the call of analyze_headers
NextHeaders == MatchNoKey \/ MatchKey \/ MatchPanic

SpecHeaders == InitHeaders /\ [][NextHeaders]_vars

\* the headers of the packet at hand
TheHeaders == packet_res.packet.headers

\* an ARP packet that analyze_network_header accepts
ValidArp(net) ==
    \/ net.proto_addr_type = "IPV4" /\ Len(net.sender) = 4 /\ Len(net.target) = 4
    \/ net.proto_addr_type = "IPV6" /\ Len(net.sender) = 16 /\ Len(net.target) = 16

\* the packets for which C17 announces a key
KeyExpected(h) ==
    \/ h.net.kind = "Arp" /\ ValidArp(h.net)
    \/ /\ h.net.kind \in {"Ipv4", "Ipv6"}
       /\ h.transport.kind \in {"Tcp", "Udp", "Icmpv4", "Icmpv6"}

\* C17: analyze_headers returns a key iff the network header is IPv4, IPv6
\* or a valid ARP packet and, for a packet that is not ARP, the transport
\* header is TCP, UDP, ICMPv4 or ICMPv6; the transport header of an ARP packet
\* is never examined; the capture loop goes on with the key or skips
C17_KeyIffSupported ==
    /\ analyze_headers(TheHeaders).some <=> KeyExpected(TheHeaders)
    /\ TheHeaders.net.kind = "Arp" =>
          analyze_headers(TheHeaders)
              = analyze_headers([TheHeaders EXCEPT !.transport = TransportNone])
    /\ pc = "lock" =>
          /\ KeyExpected(TheHeaders)
          /\ loc.key = analyze_headers(TheHeaders).key
          /\ TheHeaders.net.kind = "Arp" =>
                loc.key.port1 = NoPort /\ loc.key.port2 = NoPort
    /\ pc = "next" => ~KeyExpected(TheHeaders)

\* a valid ARP packet that carries a transport header got its key
C17_Witness ==
    /\ pc = "lock"
    /\ TheHeaders.net.kind = "Arp"
    /\ TheHeaders.transport.kind = "Tcp"
    /\ loc.key.address1 = [v |-> 4, o |-> Bytes4]

\* the statement of C18: for every payload_length of an IPv6 header,
\* analyze_network_header adds exactly 40 + payload_length, without panicking
\* and without wrapping
C18_Ipv6BytesExact ==
    TheHeaders.net.kind = "Ipv6" =>
        /\ pc # "panicked"
        /\ analyze_network_header(TheHeaders.net).bytes = 40 + TheHeaders.net.len
        /\ pc = "lock" =>
              loc.exchanged_bytes
                  = analyze_link_header(TheHeaders.link) + 40 + TheHeaders.net.len

\* the payload lengths for which the sum fits the 16 bits it is computed in
C18_Ipv6BytesBelowOverflow ==
    (TheHeaders.net.kind = "Ipv6" /\ TheHeaders.net.len <= 65495) =>
        /\ pc # "panicked"
        /\ analyze_network_header(TheHeaders.net).bytes = 40 + TheHeaders.net.len

\* the sum has wrapped: the packet is accounted with 40 + payload_length - 65536
NeverWrapped ==
    ~(pc = "lock" /\ TheHeaders.net.kind = "Ipv6" /\ TheHeaders.net.len = 65535
      /\ loc.exchanged_bytes = analyze_link_header(TheHeaders.link) + 39)

\* C19: an ARP packet is skipped when its protocol address type is neither
\* IPv4 nor IPv6 or when its sender or target protocol address has not
\* exactly 4 (IPv4) or 16 (IPv6) bytes; on skip neither the exchanged bytes
\* nor the ARP operation type is updated
C19_ArpSkipped ==
    TheHeaders.net.kind = "Arp" =>
        LET n == analyze_network_header(TheHeaders.net)
        IN /\ n.ok <=> ValidArp(TheHeaders.net)
           /\ ~n.ok => n.bytes = 0 /\ n.arp_type = ""
           /\ n.ok => n.bytes = TheHeaders.net.len /\ n.arp_type = TheHeaders.net.operation
           /\ (~ValidArp(TheHeaders.net) /\ pc # "match") =>
                 /\ pc = "next"
                 /\ info_traffic_msg.map = EmptyMap
                 /\ info_traffic_msg.tot_data_info = DataInfoDefault

\* an ARP packet of type IPv6 with a 4-byte sender address was skipped
C19_Witness ==
    /\ pc = "next"
    /\ TheHeaders.net.kind = "Arp"
    /\ TheHeaders.net.proto_addr_type = "IPV6"
    /\ Len(TheHeaders.net.sender) = 4
    /\ info_traffic_msg.map = EmptyMap

(***************************************************************************)
(* Null / loopback link layer: from_null                                   *)
(***************************************************************************)
\* a u32 is kept as its two 16-bit halves
\* a reading that takes the most significant byte first
FromBeOnly(b) == [hi |-> b[1] * 256 + b[2], lo |-> b[3] * 256 + b[4]]

\* u32::from_le_bytes
from_le_bytes(b) == [hi |-> b[4] * 256 + b[3], lo |-> b[2] * 256 + b[1]]

\* u32::from_be_bytes
from_be_bytes(b) == [hi |-> b[1] * 256 + b[2], lo |-> b[3] * 256 + b[4]]

\* fn matches(value: u32): 2 | 24 | 28 | 30
matches(value) == value.hi = 0 /\ value.lo \in {2, 24, 28, 30}

is_valid_af_inet(packet) ==
    LET h == SubSeq(packet, 1, 4)
        b == <<h[1], h[2], h[3], h[4]>>
    IN matches(from_le_bytes(b)) \/ matches(from_be_bytes(b))

\* from_null: an error, or the call of LaxPacketHeaders::from_ip on packet[4..]
from_null(packet) ==
    IF Len(packet) <= 4
    THEN [tag |-> "Len", slice |-> <<>>]
    ELSE IF is_valid_af_inet(packet)
    THEN [tag |-> "from_ip", slice |-> SubSeq(packet, 5, Len(packet))]
    ELSE [tag |-> "Content", slice |-> <<>>]

\* what LaxPacketHeaders::from_ip (etherparse) can answer: an error, or
\* headers without link layer
FromIpResults ==
    {[ok |-> FALSE, headers |-> Headers(LinkNone, NetNone, TransportNone)]}
    \cup {[ok |-> TRUE, headers |-> Headers(LinkNone, NetIpv4(LocalIp, RemoteA, 60), t)] :
             t \in {TransportTcp(50000, 443), TransportNone}}

\* the first four bytes of the sample packets
SampleTags ==
    {<<v, 0, 0, 0>> : v \in {0, 2, 3, 24, 28, 30, 31, 255}}
    \cup {<<0, 0, 0, v>> : v \in {2, 3, 24, 28, 30, 31, 255}}
    \cup {<<2, 0, 0, 2>>, <<0, 2, 0, 0>>, <<0, 0, 24, 0>>, <<2, 1, 0, 0>>,
          <<30, 0, 0, 1>>, <<255, 255, 255, 255>>, <<2, 0, 0, 128>>}

\* the bytes after them
SamplePayloads == {<<>>, <<69>>, <<69, 0>>, <<96, 0>>}

\* the bytes of the sample packets, those of at most 4 bytes included
SampleBytes ==
    {tag \o payload : tag \in SampleTags, payload \in SamplePayloads}
    \cup {<<>>, <<2>>, <<2, 0, 0>>, <<0, 0, 2>>}

\* a packet read from a capture whose link type is Null or Loop, before
\* get_sniffable_headers
RawPacket(bytes) ==
    [decoded |-> FALSE, headers |-> Headers(LinkNone, NetNone, TransportNone),
     ts |-> [secs |-> 1, usecs |-> 0], bytes |-> bytes, result |-> "", slice |-> <<>>]

InitNull ==
    /\ cs \in {[kind |-> "File", addresses |-> <<>>],
               [kind |-> "Device", addresses |-> IfaceFirst]}
    /\ mmdb_readers = "None"
    /\ \E bytes \in SampleBytes :
          /\ cap = [tape |-> <<RawPacket(bytes)>>, pos |-> 1, eof |-> FALSE]
          /\ packet_res = OkPacket(RawPacket(bytes))
    /\ pc = "decode"
    /\ first_packet_ticks = FALSE
    /\ info_traffic_msg = InfoTrafficDefault
    /\ loc = LocDefault
    /\ resolutions_state = LedgerDefault
    /\ ledger_lock = {}
    /\ hosts_lock = {}
    /\ new_hosts_to_send = <<>>
    /\ tasks = <<>>
    /\ resolver = EmptyMap
    /\ events = <<>>
    /\ interval_start = 0
    /\ first_run = [done |-> FALSE, counters |-> <<>>]
    /\ call = NoCall
    /\ InitMod

\* get_sniffable_headers for MyLinkType::Null and MyLinkType::Loop
DecodeNull ==
    /\ pc = "decode"
    /\ LET r == from_null(packet_res.packet.bytes)
       IN \E ip \in IF r.tag = "from_ip" THEN FromIpResults
                    ELSE {[ok |-> FALSE, headers |-> Headers(LinkNone, NetNone, TransportNone)]} :
             packet_res' = OkPacket([packet_res.packet EXCEPT
                                        !.decoded = ip.ok, !.headers = ip.headers,
                                        !.result = r.tag, !.slice = r.slice])
    /\ pc' = "match"
    /\ UNCHANGED <<call, mod_vars, hosts_lock, first_run, cs, mmdb_readers, cap, first_packet_ticks,
                   info_traffic_msg, loc, resolutions_state, ledger_lock,
                   new_hosts_to_send, tasks, resolver, events, interval_start>>

NextNull == DecodeNull \/ MatchNothing \/ MatchNoKey \/ MatchKey

SpecNull == InitNull /\ [][NextNull]_vars

\* the bytes of the packet at hand
TheBytes == packet_res.packet.bytes

\* the packets C20 says are accepted: longer than 4 bytes, and the first
\* four bytes are 2, 24, 28 or 30 written least or most significant byte first
NullAccepted(bytes) ==
    /\ Len(bytes) > 4
    /\ \E v \in {2, 24, 28, 30} :
          SubSeq(bytes, 1, 4) \in {<<v, 0, 0, 0>>, <<0, 0, 0, v>>}

\* C20: from_null hands the bytes from byte 4 on to the IP parser iff the
\* packet is longer than 4 bytes and its first four bytes, read as a little
\* or big endian u32, are 2, 24, 28 or 30 (so both 02 00 00 00 and
\* 00 00 00 02 are accepted); every other packet gives a decode error, and
\* the capture loop skips it
C20_FromNull ==
    /\ (from_null(TheBytes).tag = "from_ip") <=> NullAccepted(TheBytes)
    /\ from_null(TheBytes).tag = "from_ip" =>
          from_null(TheBytes).slice = [i \in 1..(Len(TheBytes) - 4) |-> TheBytes[i + 4]]
    /\ ~NullAccepted(TheBytes) =>
          from_null(TheBytes).tag = (IF Len(TheBytes) <= 4 THEN "Len" ELSE "Content")
    /\ pc # "decode" =>
          /\ packet_res.packet.result = from_null(TheBytes).tag
          /\ packet_res.packet.decoded => NullAccepted(TheBytes)
          /\ ~NullAccepted(TheBytes) =>
                /\ pc \in {"match", "next"}
                /\ info_traffic_msg = InfoTrafficDefault
                /\ events = <<>>

\* a packet tagged 00 00 00 02 was decoded and accounted
C20_Witness ==
    /\ pc = "lock"
    /\ SubSeq(TheBytes, 1, 4) = <<0, 0, 0, 2>>
    /\ packet_res.packet.slice = <<69, 0>>
    /\ info_traffic_msg.tot_data_info # DataInfoDefault

\* a packet tagged 02 00 00 00 was decoded
NullLittleEndian ==
    ~(pc = "lock" /\ SubSeq(TheBytes, 1, 4) = <<2, 0, 0, 0>>)

(***************************************************************************)
(* The classification functions called on their own                        *)
(***************************************************************************)
\* the variables of the capture and of its resolution threads
capture_vars == <<cs, mmdb_readers, cap, pc, packet_res, first_packet_ticks,
                  info_traffic_msg, loc, resolutions_state, ledger_lock, hosts_lock,
                  new_hosts_to_send, tasks, resolver, events, interval_start,
                  first_run>>

Loopback4 == V4(127, 0, 0, 1)
Near4 == V4(192, 168, 1, 77)
Far4 == V4(192, 168, 14, 9)
DirectedBroadcast == V4(192, 168, 1, 255)
Multicast4 == V4(224, 0, 0, 251)
LinkLocal4 == V4(169, 254, 1, 1)
Multicast6 == [v |-> 6, o |-> [i \in 1..16 |-> IF i = 1 THEN 255 ELSE IF i = 2 THEN 2 ELSE 0]]
Ipv6C == [v |-> 6, o |-> [i \in 1..16 |-> IF i = 1 THEN 32 ELSE IF i <= 8 THEN i ELSE 100 + i]]
Netmask6 == [v |-> 6, o |-> [i \in 1..16 |-> IF i <= 8 THEN 255 ELSE 0]]

\* the addresses the functions are called with
ClassifyAddresses ==
    {LocalIp, Near4, Far4, RemoteA, Loopback4, UNSPECIFIED_V4, UNSPECIFIED_V6,
     LOCALHOST_V6, BROADCAST_V4, DirectedBroadcast, Multicast4, Multicast6,
     LinkLocal4, Ipv6A, Ipv6B, Ipv6C}

\* the address lists of the capturing interface: none (a file), IPv4 with
\* and without netmask or broadcast address, IPv6 only, two addresses
ClassifyIfaces ==
    {<<>>, IfaceFirst,
     <<Address(LocalIp, V4(255, 255, 240, 0), NoAddr)>>,
     <<Address(LocalIp, NoAddr, NoAddr)>>,
     <<Address(Ipv6B, Netmask6, NoAddr)>>,
     <<Address(V4(10, 0, 0, 5), V4(255, 0, 0, 0), V4(10, 255, 255, 255)),
       Address(LocalIp, V4(255, 255, 255, 0), DirectedBroadcast)>>}

ClassifyPorts == {80, 443, 8080, 50000, NoPort}

\* the calls of the four functions
ClassifyCalls ==
    {[fn |-> "get_service",
      args |-> [key |-> AddressPortPair(LocalIp, p1, a2, p2, proto),
                traffic_direction |-> d, my_interface_addresses |-> ifs],
      done |-> FALSE, result |-> ""] :
        p1 \in ClassifyPorts, p2 \in ClassifyPorts,
        a2 \in {RemoteA, Multicast4, Multicast6, BROADCAST_V4, DirectedBroadcast},
        proto \in {"TCP", "UDP", "ICMP", "ARP"}, d \in {Incoming, Outgoing},
        ifs \in {<<>>, IfaceFirst, <<Address(LocalIp, NoAddr, NoAddr)>>}}
    \cup
    {[fn |-> "get_traffic_direction",
      args |-> [source_ip |-> a1, destination_ip |-> a2, source_port |-> p1,
                dest_port |-> p2, my_interface_addresses |-> ifs],
      done |-> FALSE, result |-> ""] :
        a1 \in ClassifyAddresses, a2 \in ClassifyAddresses,
        p1 \in {80, 12345, NoPort}, p2 \in {80, 12345, NoPort}, ifs \in ClassifyIfaces}
    \cup
    {[fn |-> "get_traffic_type",
      args |-> [destination_ip |-> a, my_interface_addresses |-> ifs,
                traffic_direction |-> d],
      done |-> FALSE, result |-> ""] :
        a \in ClassifyAddresses, ifs \in ClassifyIfaces, d \in {Incoming, Outgoing}}
    \cup
    {[fn |-> "is_local_connection",
      args |-> [address_to_lookup |-> a, my_interface_addresses |-> ifs],
      done |-> FALSE, result |-> ""] :
        a \in ClassifyAddresses, ifs \in ClassifyIfaces}

InitClassify ==
    /\ call \in ClassifyCalls
    /\ cs = [kind |-> "File", addresses |-> <<>>]
    /\ mmdb_readers = "None"
    /\ cap = [tape |-> <<>>, pos |-> 0, eof |-> FALSE]
    /\ pc = "next"
    /\ packet_res = NoPacket
    /\ first_packet_ticks = FALSE
    /\ info_traffic_msg = InfoTrafficDefault
    /\ loc = LocDefault
    /\ resolutions_state = LedgerDefault
    /\ ledger_lock = {}
    /\ hosts_lock = {}
    /\ new_hosts_to_send = <<>>
    /\ tasks = <<>>
    /\ resolver = EmptyMap
    /\ events = <<>>
    /\ interval_start = 0
    /\ first_run = [done |-> FALSE, counters |-> <<>>]
    /\ InitMod

\* the call returns
Return(result) ==
    /\ call' = [call EXCEPT !.done = TRUE, !.result = result]
    /\ UNCHANGED <<capture_vars, mod_vars>>

CallGetService ==
    /\ call.fn = "get_service" /\ ~call.done
    /\ Return(get_service(call.args.key, call.args.traffic_direction,
                          call.args.my_interface_addresses))

CallGetTrafficDirection ==
    /\ call.fn = "get_traffic_direction" /\ ~call.done
    /\ Return(get_traffic_direction(call.args.source_ip, call.args.destination_ip,
                                    call.args.source_port, call.args.dest_port,
                                    call.args.my_interface_addresses))

CallGetTrafficType ==
    /\ call.fn = "get_traffic_type" /\ ~call.done
    /\ Return(get_traffic_type(call.args.destination_ip,
                               call.args.my_interface_addresses,
                               call.args.traffic_direction))

CallIsLocalConnection ==
    /\ call.fn = "is_local_connection" /\ ~call.done
    /\ Return(is_local_connection(call.args.address_to_lookup,
                                  call.args.my_interface_addresses))

NextClassify ==
    \/ CallGetService \/ CallGetTrafficDirection
    \/ CallGetTrafficType \/ CallIsLocalConnection

SpecClassify == InitClassify /\ [][NextClassify]_vars

(***************************************************************************)
(* Properties of get_service                                               *)
(***************************************************************************)
\* a table as build.rs would generate it
ServicesSample ==
    (<<80, "TCP">> :> ServiceName("http")) @@ (<<443, "TCP">> :> ServiceName("https"))
    @@ (<<8080, "TCP">> :> ServiceName("http-alt")) @@ (<<443, "UDP">> :> ServiceName("https"))

\* tables: the one of the source, the sample, and one with port 80 only
SampleTables == {SERVICES, ServicesSample, (<<80, "TCP">> :> ServiceName("http"))}

\* a call of get_service whose key has both ports and a transport protocol
ServiceCall ==
    /\ call.fn = "get_service"
    /\ call.args.key.protocol \in {"TCP", "UDP"}
    /\ call.args.key.port1 # NoPort
    /\ call.args.key.port2 # NoPort

\* the destination port has the bonus of the direction
BonusOnPort2 ==
    \/ call.args.traffic_direction = Outgoing
    \/ is_multicast(call.args.key.address2)
    \/ call.args.key.address2 = BROADCAST_V4
    \/ \E i \in DOMAIN call.args.my_interface_addresses :
          call.args.my_interface_addresses[i].broadcast_addr = call.args.key.address2

\* the statement of C21: for a TCP key with port1 = 80 and port2 = 50000 and
\* the bonus on port2, get_service returns the named service of port 80
C21_Port80Named ==
    (/\ ServiceCall /\ call.done
     /\ call.args.key.protocol = "TCP"
     /\ call.args.key.port1 = 80 /\ call.args.key.port2 = 50000
     /\ BonusOnPort2)
        => call.result.tag = "Name"

\* with a table that names port 80 the same call gives that name
Port80NamedInTable ==
    (/\ ServiceCall
     /\ call.args.key.protocol = "TCP"
     /\ call.args.key.port1 = 80 /\ call.args.key.port2 = 50000)
        => get_service_in(ServicesSample, call.args.key, call.args.traffic_direction,
                          call.args.my_interface_addresses) = ServiceName("http")

\* the score C22 describes
ClaimedScore(services, port, protocol, bonus) ==
    (IF <<port, protocol>> \in DOMAIN services THEN 1 ELSE 0)
        * ((IF port < 1024 THEN 3 ELSE 1) + (IF bonus THEN 1 ELSE 0))

\* the entry of a port, Unknown without entry
ClaimedService(services, port, protocol) ==
    IF <<port, protocol>> \in DOMAIN services THEN services[<<port, protocol>>]
    ELSE ServiceUnknown

\* C22: for every TCP/UDP key with both ports, get_service scores a port
\* is_named * ((3 if port < 1024 else 1) + 1 if it has the bonus), gives the
\* bonus to port2 when the direction is Outgoing or the destination is
\* multicast or broadcast and to port1 otherwise, and returns service1 only
\* when score1 > score2, service2 on every tie
C22_ServiceScore ==
    ServiceCall =>
        /\ \A services \in SampleTables :
              LET k == call.args.key
                  score1 == ClaimedScore(services, k.port1, k.protocol, ~BonusOnPort2)
                  score2 == ClaimedScore(services, k.port2, k.protocol, BonusOnPort2)
              IN get_service_in(services, k, call.args.traffic_direction,
                                call.args.my_interface_addresses)
                     = IF score1 > score2 THEN ClaimedService(services, k.port1, k.protocol)
                       ELSE ClaimedService(services, k.port2, k.protocol)
        /\ call.done =>
              call.result = get_service_in(SERVICES, call.args.key,
                                           call.args.traffic_direction,
                                           call.args.my_interface_addresses)

\* an Incoming flow to a multicast address between two well-known named
\* ports: the bonus goes to port2, whose service wins
C22_Witness ==
    /\ ServiceCall /\ call.done
    /\ call.args.key.port1 = 80 /\ call.args.key.port2 = 443
    /\ call.args.key.protocol = "TCP"
    /\ call.args.traffic_direction = Incoming
    /\ call.args.key.address2 = Multicast4
    /\ get_service_in(ServicesSample, call.args.key, call.args.traffic_direction,
                      call.args.my_interface_addresses) = ServiceName("https")

\* C23: get_service returns NotApplicable for every key whose protocol is
\* ICMP or ARP and for every key without port1 or port2, whatever the
\* direction, the interface addresses and the table
C23_NotApplicable ==
    (/\ call.fn = "get_service"
     /\ \/ call.args.key.protocol \in {"ICMP", "ARP"}
        \/ call.args.key.port1 = NoPort
        \/ call.args.key.port2 = NoPort)
        => /\ \A services \in SampleTables :
              \A d \in {Incoming, Outgoing} :
              \A ifs \in ClassifyIfaces :
                 get_service_in(services, call.args.key, d, ifs) = ServiceNotApplicable
           /\ call.done => call.result = ServiceNotApplicable

\* a TCP key without port2 got NotApplicable
C23_Witness ==
    /\ call.fn = "get_service" /\ call.done
    /\ call.args.key.protocol = "TCP"
    /\ call.args.key.port1 = 80 /\ call.args.key.port2 = NoPort
    /\ call.result = ServiceNotApplicable

(***************************************************************************)
(* Properties of get_traffic_direction and get_traffic_type                *)
(***************************************************************************)
\* the loopback rule applies to the call
LoopbackRule ==
    /\ is_loopback(call.args.source_ip)
    /\ is_loopback(call.args.destination_ip)
    /\ call.args.source_port # NoPort
    /\ call.args.dest_port # NoPort

\* C24: between two loopback addresses with both ports present the direction
\* is Outgoing iff the source port is strictly greater than the destination
\* port, Incoming otherwise, whatever the interface addresses
C24_LoopbackDirection ==
    (call.fn = "get_traffic_direction" /\ LoopbackRule) =>
        /\ \A ifs \in ClassifyIfaces :
              (get_traffic_direction(call.args.source_ip, call.args.destination_ip,
                                     call.args.source_port, call.args.dest_port, ifs)
                   = Outgoing)
              <=> call.args.source_port > call.args.dest_port
        /\ call.done =>
              call.result = IF call.args.source_port > call.args.dest_port
                            THEN Outgoing ELSE Incoming

\* 127.0.0.1:80 -> 127.0.0.1:80 on an interface is Incoming
C24_Witness ==
    /\ call.fn = "get_traffic_direction" /\ call.done
    /\ call.args.source_ip = Loopback4 /\ call.args.destination_ip = Loopback4
    /\ call.args.source_port = 80 /\ call.args.dest_port = 80
    /\ call.args.my_interface_addresses = IfaceFirst
    /\ call.result = Incoming

\* 127.0.0.1:12345 -> [::1]:80 is Outgoing
LoopbackOutgoing ==
    ~(/\ call.fn = "get_traffic_direction" /\ call.done
      /\ call.args.source_ip = Loopback4 /\ call.args.destination_ip = LOCALHOST_V6
      /\ call.args.source_port = 12345 /\ call.args.dest_port = 80
      /\ call.result = Outgoing)

\* 'local' in C25: in the interface address list when there is one, a bogon
\* address when there is none
ClaimedLocal(ifs, ip) ==
    IF Len(ifs) = 0 THEN is_bogon(ip) # ""
    ELSE \E i \in DOMAIN ifs : ifs[i].addr = ip

\* C25: when the loopback rule does not apply the direction is Outgoing if
\* the source is local; else Incoming if the source is neither 0.0.0.0 nor
\* ::; else Outgoing if the destination is not local; else Incoming
C25_Direction ==
    (call.fn = "get_traffic_direction" /\ call.done /\ ~LoopbackRule) =>
        LET ifs == call.args.my_interface_addresses
            src == call.args.source_ip
            dst == call.args.destination_ip
        IN call.result =
              CASE ClaimedLocal(ifs, src) -> Outgoing
                [] ~ClaimedLocal(ifs, src) /\ src \notin {UNSPECIFIED_V4, UNSPECIFIED_V6}
                      -> Incoming
                [] ~ClaimedLocal(ifs, src) /\ src \in {UNSPECIFIED_V4, UNSPECIFIED_V6}
                      /\ ~ClaimedLocal(ifs, dst) -> Outgoing
                [] OTHER -> Incoming

\* a packet from 0.0.0.0 to the address of the interface is Incoming
C25_Witness ==
    /\ call.fn = "get_traffic_direction" /\ call.done
    /\ call.args.source_ip = UNSPECIFIED_V4
    /\ call.args.destination_ip = LocalIp
    /\ call.args.my_interface_addresses = IfaceFirst
    /\ call.result = Incoming

\* a packet of a file from a private address is Outgoing
BogonSourceOutgoing ==
    ~(/\ call.fn = "get_traffic_direction" /\ call.done
      /\ call.args.source_ip = LocalIp /\ call.args.destination_ip = RemoteA
      /\ call.args.my_interface_addresses = <<>>
      /\ call.result = Outgoing)

\* C26: get_traffic_type is Unicast for every Incoming flow; for an Outgoing
\* flow it is Multicast when the destination is multicast, otherwise
\* Broadcast when the destination is 255.255.255.255 or the broadcast address
\* of one of the interface addresses, otherwise Unicast
C26_TrafficType ==
    (call.fn = "get_traffic_type" /\ call.done) =>
        LET dst == call.args.destination_ip
            ifs == call.args.my_interface_addresses
        IN call.result =
              IF call.args.traffic_direction = Incoming THEN "Unicast"
              ELSE IF (IF dst.v = 4 THEN dst.o[1] >= 224 /\ dst.o[1] <= 239
                       ELSE dst.o[1] = 255) THEN "Multicast"
              ELSE IF \/ dst = V4(255, 255, 255, 255)
                      \/ \E i \in DOMAIN ifs :
                            ifs[i].broadcast_addr # NoAddr /\ ifs[i].broadcast_addr = dst
              THEN "Broadcast"
              ELSE "Unicast"

\* an Outgoing flow to the directed broadcast address of the interface
C26_Witness ==
    /\ call.fn = "get_traffic_type" /\ call.done
    /\ call.args.traffic_direction = Outgoing
    /\ call.args.destination_ip = DirectedBroadcast
    /\ call.args.my_interface_addresses = IfaceFirst
    /\ call.result = "Broadcast"

(***************************************************************************)
(* Properties of is_local_connection                                       *)
(***************************************************************************)
\* the looked-up address shares the subnet of an interface address of its
\* IP version that has a netmask
ClaimedSameSubnet(a, ifs) ==
    \E i \in DOMAIN ifs :
        /\ ifs[i].addr.v = a.v
        /\ ifs[i].netmask # NoAddr
        /\ ifs[i].netmask.v = a.v
        /\ \A j \in DOMAIN a.o :
              BitAnd(ifs[i].netmask.o[j], ifs[i].addr.o[j])
                  = BitAnd(ifs[i].netmask.o[j], a.o[j])

\* the statement of C27: is_local_connection is true iff the address is
\* link-local or shares the subnet of an interface address of its IP version,
\* for every interface list, the empty list and a list of the other version
\* included
C27_LocalConnection ==
    (call.fn = "is_local_connection" /\ call.done) =>
        (call.result <=>
            \/ is_link_local(call.args.address_to_lookup)
            \/ ClaimedSameSubnet(call.args.address_to_lookup,
                                 call.args.my_interface_addresses))

\* what the code does: a link-local address is local only when the list has
\* an address of its IP version
LocalWithInterfaceOfVersion ==
    (call.fn = "is_local_connection" /\ call.done) =>
        (call.result <=>
            \/ /\ is_link_local(call.args.address_to_lookup)
               /\ \E i \in DOMAIN call.args.my_interface_addresses :
                     call.args.my_interface_addresses[i].addr.v
                         = call.args.address_to_lookup.v
            \/ ClaimedSameSubnet(call.args.address_to_lookup,
                                 call.args.my_interface_addresses))

\* 169.254.1.1 is not local for a capture without interface address
LinkLocalNotLocal ==
    ~(/\ call.fn = "is_local_connection" /\ call.done
      /\ call.args.address_to_lookup = LinkLocal4
      /\ call.args.my_interface_addresses = <<>>
      /\ call.result = FALSE)

(***************************************************************************)
(* The commands of mod.rs: start_capture, stop_capture, get_traffic_data   *)
(***************************************************************************)
\* TrafficData
TrafficData(total_packets, total_bytes) ==
    [total_packets |-> total_packets, total_bytes |-> total_bytes]
TrafficDataDefault == TrafficData(0, 0)

\* the names Device::list() reports, and the names the frontend asks for
Devices == {"eth0"}
InterfaceNames == {"eth0", "wlan9"}

\* packet.len() of the packets of the sample
PacketLen == 60

\* a thread spawned by start_capture: the flag it polls, its position, its
\* counters and the channel its sender belongs to
CaptureThreadOf(channel) ==
    [stop_signal |-> FALSE, pc |-> "while", traffic_data |-> TrafficDataDefault,
     tx |-> channel]

\* the capture threads that have not left their loop
RunningCaptures == {t \in DOMAIN capture_threads : capture_threads[t].pc # "exited"}

\* what a command leaves for the frontend: its result (with the TrafficData
\* of get_traffic_data), and the capture threads that were running when it
\* was called
Returned(command, result) ==
    [command |-> command, result |-> result, active |-> RunningCaptures,
     joining |-> None, data |-> TrafficDataDefault]

\* start_capture(interface_name)
StartCapture ==
    /\ Len(channels) < MaxCaptures
    /\ \E interface_name \in InterfaceNames :
       \E list_ok \in BOOLEAN :
       \E device_ok \in BOOLEAN :
          IF ~list_ok
          THEN /\ returned' = Returned("start_capture", "Err: device list")
               /\ UNCHANGED <<CAPTURE_CHANNEL, channels, capture_threads>>
          ELSE IF interface_name \notin Devices
          THEN /\ returned' = Returned("start_capture", "Err: Interface not found")
               /\ UNCHANGED <<CAPTURE_CHANNEL, channels, capture_threads>>
          ELSE /\ channels' = Append(channels, <<>>)
               /\ CAPTURE_CHANNEL' = Len(channels) + 1
               /\ IF ~device_ok
                  THEN /\ returned' = Returned("start_capture", "Err: capture")
                       /\ UNCHANGED capture_threads
                  ELSE /\ capture_threads' =
                              Append(capture_threads, CaptureThreadOf(Len(channels) + 1))
                       /\ returned' = Returned("start_capture", "Ok")
    /\ UNCHANGED <<STOP_SIGNAL, CAPTURE_THREAD, call, capture_vars>>

\* stop_capture(): with a registered flag it raises the flag and joins the
\* registered thread (the command returns when that thread has exited);
\* without one it does nothing; it returns ()
StopCapture ==
    /\ IF returned.joining # None
       THEN /\ capture_threads[returned.joining].pc = "exited"
            /\ returned' = [returned EXCEPT !.result = "()", !.joining = None]
            /\ UNCHANGED <<CAPTURE_THREAD, capture_threads>>
       ELSE IF STOP_SIGNAL # None
       THEN /\ capture_threads' = [capture_threads EXCEPT ![STOP_SIGNAL].stop_signal = TRUE]
            /\ CAPTURE_THREAD' = None
            /\ returned' = [Returned("stop_capture", "()") EXCEPT
                                !.joining = CAPTURE_THREAD]
       ELSE /\ returned' = Returned("stop_capture", "()")
            /\ UNCHANGED <<CAPTURE_THREAD, capture_threads>>
    /\ UNCHANGED <<STOP_SIGNAL, CAPTURE_CHANNEL, channels, call, capture_vars>>

\* get_traffic_data(): rx.try_recv() on the registered channel
GetTrafficData ==
    /\ IF CAPTURE_CHANNEL # None /\ channels[CAPTURE_CHANNEL] # <<>>
       THEN /\ returned' = [Returned("get_traffic_data", "TrafficData") EXCEPT
                                !.data = Head(channels[CAPTURE_CHANNEL])]
            /\ channels' = [channels EXCEPT ![CAPTURE_CHANNEL] = Tail(@)]
       ELSE /\ returned' = Returned("get_traffic_data", "TrafficData")
            /\ UNCHANGED channels
    /\ UNCHANGED <<STOP_SIGNAL, CAPTURE_THREAD, CAPTURE_CHANNEL, capture_threads,
                   call, capture_vars>>

\* while !stop_signal_clone.load(Ordering::SeqCst)
ThreadWhile(t) ==
    /\ capture_threads[t].pc = "while"
    /\ capture_threads' =
          [capture_threads EXCEPT
              ![t].pc = IF capture_threads[t].stop_signal THEN "exited" ELSE "next_packet"]
    /\ UNCHANGED <<STOP_SIGNAL, CAPTURE_THREAD, CAPTURE_CHANNEL, channels, returned,
                   call, capture_vars>>

\* tx.send_blocking(data): the message is queued while the receiver, kept
\* in CAPTURE_CHANNEL, is alive
Sent(channel, data) ==
    IF CAPTURE_CHANNEL = channel
    THEN [channels EXCEPT ![channel] = Append(@, data)]
    ELSE channels

\* match cap.next_packet(): a packet with a key (counted, and sent when the
\* send interval has elapsed), a packet that is skipped or a timeout, an error
ThreadPacket(t) ==
    /\ capture_threads[t].pc = "next_packet"
    /\ \E outcome \in {"key", "skip", "timeout", "error"} :
       \E elapsed \in BOOLEAN :
          LET data == TrafficData(capture_threads[t].traffic_data.total_packets + 1,
                                  capture_threads[t].traffic_data.total_bytes + PacketLen)
          IN CASE outcome = "key" ->
                    /\ capture_threads[t].traffic_data.total_packets < MaxCounted
                    /\ capture_threads' = [capture_threads EXCEPT
                                              ![t].traffic_data = data, ![t].pc = "while"]
                    /\ channels' = IF elapsed THEN Sent(capture_threads[t].tx, data)
                                   ELSE channels
               [] outcome \in {"skip", "timeout"} ->
                    /\ ~elapsed
                    /\ capture_threads' = [capture_threads EXCEPT ![t].pc = "while"]
                    /\ UNCHANGED channels
               [] outcome = "error" ->
                    /\ ~elapsed
                    /\ capture_threads' = [capture_threads EXCEPT ![t].pc = "exited"]
                    /\ UNCHANGED channels
    /\ UNCHANGED <<STOP_SIGNAL, CAPTURE_THREAD, CAPTURE_CHANNEL, returned, call,
                   capture_vars>>

ThreadStep(t) == ThreadWhile(t) \/ ThreadPacket(t)

InitControl == Init /\ cs.kind = "Device" /\ mmdb_readers = "None"

NextControl ==
    \/ StartCapture \/ StopCapture \/ GetTrafficData
    \/ \E t \in DOMAIN capture_threads : ThreadStep(t)

\* the commands come when the frontend sends them; a capture thread that can
\* take a step is eventually run
SpecControl ==
    /\ InitControl
    /\ [][NextControl]_vars
    /\ WF_vars(\E t \in DOMAIN capture_threads : ThreadStep(t))

\* the statement of C28: start_capture with a capture still running returns
\* the error 'capture already running' and spawns no thread, so at most one
\* capture thread runs at any time
C28_AtMostOneCapture ==
    /\ Cardinality(RunningCaptures) <= 1
    /\ (returned.command = "start_capture" /\ returned.active # {}) =>
          returned.result = "Err: capture already running"

\* the statement of C29: after stop_capture is called while a capture is
\* running, the capture thread eventually sees the stop flag and leaves its loop
C29_StopEventuallyExits ==
    \A t \in 1..MaxCaptures :
        (returned.command = "stop_capture" /\ t \in returned.active)
            ~> (t \in DOMAIN capture_threads /\ capture_threads[t].pc = "exited")

\* no flag a capture thread polls is ever raised, and no static is ever set
FlagNeverRaised ==
    /\ \A t \in DOMAIN capture_threads : ~capture_threads[t].stop_signal
    /\ STOP_SIGNAL = None
    /\ CAPTURE_THREAD = None

\* the statement of C30: stop_capture without an active capture reports the
\* error 'no capture running'
C30_StopReportsError ==
    (returned.command = "stop_capture" /\ returned.active = {}) =>
        returned.result = "Err: no capture running"

\* stop_capture changes nothing but what the frontend is told
StopChangesNothing ==
    [][returned'.command = "stop_capture" /\ returned' # returned =>
          UNCHANGED <<STOP_SIGNAL, CAPTURE_THREAD, CAPTURE_CHANNEL, capture_threads,
                      channels>>]_vars

(***************************************************************************)
(* The formatting of an amount of traffic (data_representation.rs)         *)
(***************************************************************************)

\* 2^k
RECURSIVE Pow2(_)
Pow2(k) == IF k = 0 THEN 1 ELSE 2 * Pow2(k - 1)

\* the number of binary digits of x
RECURSIVE BitLen(_)
BitLen(x) == IF x = 0 THEN 0 ELSE 1 + BitLen(x \div 2)

\* the digits of the mantissa of an f32
MantissaDigits == 24

\* round to nearest, ties to even: x / d as an integer
RoundHalfEven(x, d) ==
    LET q == x \div d
        r == x % d
    IN IF 2 * r > d \/ (2 * r = d /\ q % 2 = 1) THEN q + 1 ELSE q

\* an f32 is m * 2^e with 2^23 <= m < 2^24, or zero
F32(m, e) ==
    IF m = Pow2(MantissaDigits)
    THEN [m |-> Pow2(MantissaDigits - 1), e |-> e + 1]
    ELSE [m |-> m, e |-> e]

\* `amount as f32`: the nearest f32, as the integer it stands for
as_f32(amount) ==
    LET shift == BitLen(amount) - MantissaDigits
    IN IF shift <= 0 THEN amount
       ELSE RoundHalfEven(amount, Pow2(shift)) * Pow2(shift)

\* the quotient a / b of two f32 holding the integers a and b, rounded to the
\* nearest f32 (long division, one binary digit at a time)
RECURSIVE LongDivision(_, _, _, _)
LongDivision(q, r, b, digits) ==
    IF digits = 0
    THEN IF 2 * r > b \/ (2 * r = b /\ q % 2 = 1) THEN q + 1 ELSE q
    ELSE LongDivision(2 * q + (IF 2 * r >= b THEN 1 ELSE 0),
                      (2 * r) % b, b, digits - 1)

F32Div(a, b) ==
    LET q == a \div b
        digits == MantissaDigits - BitLen(q)
    IN IF a = 0 THEN [m |-> 0, e |-> 0]
       ELSE F32(LongDivision(q, a % b, b, digits), 0 - digits)

\* the integer part of an f32 that is not negative, and what is left of it
\* (in units of 2^e)
Trunc(n) == IF n.e >= 0 THEN n.m * Pow2(n.e) ELSE n.m \div Pow2(0 - n.e)
Fract(n) == IF n.e >= 0 THEN 0 ELSE n.m % Pow2(0 - n.e)

\* n > k and n <= c on f32 that are not negative (k an integer, c an f32)
F32Gt(n, k) == Trunc(n) > k \/ (Trunc(n) = k /\ Fract(n) > 0)
F32Le(n, c) == n.m = 0 \/ n.e < c.e \/ (n.e = c.e /\ n.m <= c.m)

\* ByteMultiple::multiplier; the multipliers of TB and PB (10^12, 10^15)
\* are beyond every amount drawn here
multiplier(byte_multiple) ==
    CASE byte_multiple = "B" -> 1
      [] byte_multiple = "KB" -> 1000
      [] byte_multiple = "MB" -> 1000000
      [] byte_multiple = "GB" -> 1000000000

\* the largest amount drawn: below 2^31 and below the multiplier of TB
MaxAmount == 2000000000

\* ByteMultiple::from_amount, on the amounts up to MaxAmount
from_amount(bytes) ==
    CASE bytes < multiplier("KB") -> "B"
      [] bytes >= multiplier("KB") /\ bytes < multiplier("MB") -> "KB"
      [] bytes >= multiplier("MB") /\ bytes < multiplier("GB") -> "MB"
      [] OTHER -> "GB"

\* ByteMultiple::get_char
get_char(byte_multiple) ==
    CASE byte_multiple = "B" -> ""
      [] byte_multiple = "KB" -> "K"
      [] byte_multiple = "MB" -> "M"
      [] byte_multiple = "GB" -> "G"
      [] byte_multiple = "TB" -> "T"
      [] byte_multiple = "PB" -> "P"

\* ByteMultiple::pretty_print
pretty_print(byte_multiple, repr) ==
    CASE repr = "Packets" -> ""
      [] repr = "Bytes" -> get_char(byte_multiple) \o "B"
      [] repr = "Bits" -> get_char(byte_multiple) \o "b"

\* the mutation of Clamped: the scaled value is left as it is
NotClamped(n, byte_multiple) == n

\* formatted_string: `if n > 999.0 && byte_multiple != ByteMultiple::PB`
Clamped(n, byte_multiple) ==
    IF F32Gt(n, 999) /\ byte_multiple # "PB" THEN F32Div(999, 1) ELSE n

\* formatted_string: `usize::from(byte_multiple != ByteMultiple::B && n <= 9.95)`
Precision(n, byte_multiple) ==
    IF byte_multiple # "B" /\ F32Le(n, F32Div(995, 100)) THEN 1 ELSE 0

\* format!("{n:.precision$}"): the decimal expansion of n, rounded to
\* `precision` digits after the point (ties to even)
Formatted(n, precision) ==
    IF precision = 0
    THEN ToString(IF n.e >= 0 THEN Trunc(n)
                  ELSE RoundHalfEven(n.m, Pow2(0 - n.e)))
    ELSE LET tenths == IF n.e >= 0 THEN 10 * Trunc(n)
                       ELSE RoundHalfEven(10 * n.m, Pow2(0 - n.e))
         IN ToString(tenths \div 10) \o "." \o ToString(tenths % 10)

\* str::trim on what format! built: the unit is empty for no DataRepr that
\* gets here, so only the case of an empty unit removes the space
Trimmed(number, unit) ==
    IF unit = "" THEN number ELSE number \o " " \o unit

\* DataRepr::formatted_string
formatted_string(self, amount) ==
    IF self = "Packets" THEN ToString(amount)
    ELSE LET byte_multiple == from_amount(amount)
             n == Clamped(F32Div(as_f32(amount), multiplier(byte_multiple)),
                          byte_multiple)
         IN Trimmed(Formatted(n, Precision(n, byte_multiple)),
                    pretty_print(byte_multiple, self))

\* the capture as it is when no capture was started
IdleCapture ==
    /\ cs = [kind |-> "File", addresses |-> <<>>]
    /\ mmdb_readers = "None"
    /\ cap = [tape |-> <<>>, pos |-> 0, eof |-> FALSE]
    /\ pc = "next"
    /\ packet_res = NoPacket
    /\ first_packet_ticks = FALSE
    /\ info_traffic_msg = InfoTrafficDefault
    /\ loc = LocDefault
    /\ resolutions_state = LedgerDefault
    /\ ledger_lock = {}
    /\ hosts_lock = {}
    /\ new_hosts_to_send = <<>>
    /\ tasks = <<>>
    /\ resolver = EmptyMap
    /\ events = <<>>
    /\ interval_start = 0
    /\ first_run = [done |-> FALSE, counters |-> <<>>]
    /\ InitMod

\* the amounts formatted: around every change of magnitude, of precision and
\* of rounding, and beyond the integers an f32 holds exactly
SampleAmounts ==
    {0, 1, 9, 10, 99, 100, 999,
     1000, 1049, 1050, 1500, 9949, 9950, 9951, 9999, 10000, 10500, 11500,
     99999, 100000, 999000, 999001, 999499, 999500, 999999,
     1000000, 1500000, 9950000, 16777217, 99999999, 999000001, 999999999,
     1000000000, 1500000000, 1999999999, MaxAmount}

DataReprALL == {"Bits", "Bytes", "Packets"}

FormatCalls ==
    {[fn |-> "formatted_string", args |-> [self |-> r, amount |-> a],
      done |-> FALSE, result |-> ""] : r \in DataReprALL, a \in SampleAmounts}

InitFormat == call \in FormatCalls /\ IdleCapture

CallFormattedString ==
    /\ call.fn = "formatted_string" /\ ~call.done
    /\ Return(formatted_string(call.args.self, call.args.amount))

NextFormat == CallFormattedString

SpecFormat == InitFormat /\ [][NextFormat]_vars

\* a call of formatted_string on bytes or bits that has returned
Formatted_Done ==
    call.fn = "formatted_string" /\ call.done /\ call.args.self # "Packets"

\* the unit shown for the amount of the call
UnitOfCall == pretty_print(from_amount(call.args.amount), call.args.self)

\* the amount of the call is more than 999 times the multiplier of its magnitude
ScaledExceeds999 ==
    LET m == multiplier(from_amount(call.args.amount))
    IN call.args.amount \div m >= 999 /\ call.args.amount % m > 0

\* C31: an amount whose scaled value exceeds 999 in a magnitude below P is
\* shown as 999 of that magnitude, no amount is shown as 1000 of a magnitude,
\* and 999_999 bytes are shown as "999 KB"
C31_ClampedTo999 ==
    Formatted_Done =>
        /\ ScaledExceeds999 => call.result = "999 " \o UnitOfCall
        /\ call.result # "1000 " \o UnitOfCall
        /\ (call.args.amount = 999999 /\ call.args.self = "Bytes") =>
              call.result = "999 KB"

C31_Witness ==
    /\ Formatted_Done
    /\ call.args = [self |-> "Bytes", amount |-> 999999]
    /\ call.result = "999 KB"

\* the statement of C32: 1_500_000_000 bytes are shown with three
\* significant digits, as "1.50 GB"
C32_ThreeDigits ==
    (Formatted_Done /\ call.args = [self |-> "Bytes", amount |-> 1500000000]) =>
        call.result = "1.50 GB"

\* what the code shows: one digit after the point up to 9.95, none above
OneDecimalDigit ==
    (Formatted_Done /\ call.args = [self |-> "Bytes", amount |-> 1500000000]) =>
        call.result = "1.5 GB"

\* 1_500_000_000 bytes have been formatted
FormattedGigabytes ==
    /\ Formatted_Done
    /\ call.args = [self |-> "Bytes", amount |-> 1500000000]
    /\ call.result = "1.5 GB"

(***************************************************************************)
(* The operations of a DataInfo (data_representation.rs)                   *)
(***************************************************************************)

\* the longest sequence of operations applied to one DataInfo
MaxOps == 3

SampleOpBytes == {0, 60, 1500}
SampleOpPackets == {0, 3}
TrafficDirections == {Incoming, Outgoing}

\* the DataInfo handed to refresh
SampleDataInfos ==
    {DataInfoDefault,
     new_with_first_packet(100, Outgoing),
     [incoming_packets |-> 7, outgoing_packets |-> 12,
      incoming_bytes |-> 723, outgoing_bytes |-> 1400]}

\* one operation applied to the DataInfo, as it is remembered in the history
Op(name, packets, bytes, traffic_direction, rhs) ==
    [op |-> name, packets |-> packets, bytes |-> bytes,
     traffic_direction |-> traffic_direction, rhs |-> rhs]

\* the DataInfo under test is call.result, the operations applied to it so far
\* are call.args
InitDataInfo ==
    /\ call = [fn |-> "DataInfo", args |-> <<>>, done |-> FALSE,
               result |-> DataInfoDefault]
    /\ IdleCapture

Applied(op, d) ==
    /\ call.fn = "DataInfo"
    /\ Len(call.args) < MaxOps
    /\ call' = [call EXCEPT !.args = Append(@, op), !.result = d]
    /\ UNCHANGED <<capture_vars, mod_vars>>

\* DataInfo::new_with_first_packet builds the DataInfo
NewWithFirstPacket ==
    /\ call.args = <<>>
    /\ \E bytes \in SampleOpBytes, traffic_direction \in TrafficDirections :
          Applied(Op("new_with_first_packet", 1, bytes, traffic_direction,
                     DataInfoDefault),
                  new_with_first_packet(bytes, traffic_direction))

AddPacket ==
    \E bytes \in SampleOpBytes, traffic_direction \in TrafficDirections :
        Applied(Op("add_packet", 1, bytes, traffic_direction, DataInfoDefault),
                add_packet(call.result, bytes, traffic_direction))

AddPackets ==
    \E packets \in SampleOpPackets, bytes \in SampleOpBytes,
       traffic_direction \in TrafficDirections :
        Applied(Op("add_packets", packets, bytes, traffic_direction,
                   DataInfoDefault),
                add_packets(call.result, packets, bytes, traffic_direction))

Refresh ==
    \E rhs \in SampleDataInfos :
        Applied(Op("refresh", 0, 0, Incoming, rhs), refresh(call.result, rhs))

NextDataInfo == NewWithFirstPacket \/ AddPacket \/ AddPackets \/ Refresh

SpecDataInfo == InitDataInfo /\ [][NextDataInfo]_vars

\* what an operation is said to contribute to the counter `field`
Contribution(op, field) ==
    IF op.op = "refresh" THEN op.rhs[field]
    ELSE CASE field = "outgoing_packets" ->
                 IF op.traffic_direction = Outgoing THEN op.packets ELSE 0
           [] field = "outgoing_bytes" ->
                 IF op.traffic_direction = Outgoing THEN op.bytes ELSE 0
           [] field = "incoming_packets" ->
                 IF op.traffic_direction = Outgoing THEN 0 ELSE op.packets
           [] field = "incoming_bytes" ->
                 IF op.traffic_direction = Outgoing THEN 0 ELSE op.bytes

CounterNames ==
    {"incoming_packets", "outgoing_packets", "incoming_bytes", "outgoing_bytes"}

\* C33: after every sequence of new_with_first_packet, add_packet, add_packets
\* and refresh, each of the four counters is the sum of the contributions made
\* to it: an Outgoing operation adds to the outgoing counters only, any other
\* to the incoming counters only, refresh adds its argument fieldwise
C33_CountersAreSums ==
    call.fn = "DataInfo" =>
        \A field \in CounterNames :
            call.result[field] =
                SumSeq([i \in DOMAIN call.args |-> Contribution(call.args[i], field)])

C33_Witness ==
    /\ call.fn = "DataInfo"
    /\ Len(call.args) = MaxOps
    /\ call.args[1].op = "new_with_first_packet"
    /\ call.args[2] = Op("add_packets", 3, 1500, Outgoing, DataInfoDefault)
    /\ call.args[3].op = "refresh"
    /\ call.result.outgoing_packets >= 3
    /\ call.result.incoming_bytes > 0

(***************************************************************************)
(* The emissions of an offline replay                                      *)
(***************************************************************************)

\* the packets of the files replayed: one that does not decode, and packets
\* with and without a key, stamped with
\* seconds that are equal, one apart, more than one apart, going back, and 0
\* (Timestamp::default())
OfflineSeconds == {0, 1, 2, 4}

OfflinePackets ==
    {[decoded |-> TRUE, headers |-> h, ts |-> [secs |-> t, usecs |-> 0]] :
        h \in {Headers(LinkEthernet2, NetIpv4(LocalIp, RemoteA, 60), TransportTcp(50000, 443)),
               Headers(LinkEthernet2, NetIpv4(LocalIp, RemoteA, 60), TransportNone)},
        t \in OfflineSeconds}
    \cup {[Undecodable EXCEPT !.ts = [secs |-> 2, usecs |-> 0]]}

\* a file of MaxConversation packets, read without geo databases
InitOffline ==
    /\ cs = [kind |-> "File", addresses |-> <<>>]
    /\ mmdb_readers = "None"
    /\ cap \in {[tape |-> tape, pos |-> 0, eof |-> FALSE] :
                   tape \in [1..MaxConversation -> OfflinePackets]}
    /\ pc = "next"
    /\ packet_res = NoPacket
    /\ first_packet_ticks = FALSE
    /\ info_traffic_msg = InfoTrafficDefault
    /\ loc = LocDefault
    /\ resolutions_state = LedgerDefault
    /\ ledger_lock = {}
    /\ hosts_lock = {}
    /\ new_hosts_to_send = <<>>
    /\ tasks = <<>>
    /\ resolver = EmptyMap
    /\ events = <<>>
    /\ interval_start = 0
    /\ first_run = [done |-> FALSE, counters |-> <<>>]
    /\ call = NoCall
    /\ InitMod

SpecOffline == InitOffline /\ [][NextFile]_vars

\* the capture thread is about to handle the decoded packet cap.tape[cap.pos]
AtDecodedPacket ==
    pc = "match" /\ packet_res.tag = "Ok" /\ packet_res.packet.decoded

\* what an event shows of itself
Shape(e) == <<e.name, e.is_final, e.duration>>

\* the events a step adds
NewEvents ==
    [i \in 1..(Len(events') - Len(events)) |-> Shape(events'[Len(events) + i])]

\* the emissions said to precede a packet of second `secs`, the packet it is
\* compared with being of second `last` (if there is one)
ClaimedEvents(has_last, last, secs) ==
    IF has_last /\ last < secs
    THEN <<<<"traffic_update", FALSE, 0>>>>
         \o (IF secs - last > 1 THEN <<<<"offline_gap", FALSE, secs - last - 1>>>>
             ELSE <<>>)
    ELSE <<>>

\* the packets before the current one that were accounted, and those decoded
AccountedBefore ==
    {i \in 1..(cap.pos - 1) :
        cap.tape[i].decoded /\ analyze_headers(cap.tape[i].headers).some}
DecodedBefore == {i \in 1..(cap.pos - 1) : cap.tape[i].decoded}

Last(S) == CHOOSE i \in S : \A j \in S : j <= i

\* the statement of C34: before a decoded packet is accounted, a snapshot
\* that is not final is emitted iff the second of the packet is greater than
\* that of the last accounted packet, a gap event carrying the difference
\* minus one follows iff the difference exceeds 1, and the first packet emits
\* nothing
C34_EmitsAfterAccounted ==
    [][(AtDecodedPacket /\ pc' # pc
            /\ analyze_headers(packet_res.packet.headers).some) =>
          NewEvents = ClaimedEvents(AccountedBefore # {},
                                    IF AccountedBefore = {} THEN 0
                                    ELSE cap.tape[Last(AccountedBefore)].ts.secs,
                                    packet_res.packet.ts.secs)]_vars

\* C34 as the code has it: before a decoded packet is accounted or skipped
\* for want of a key, a snapshot that is not final is emitted iff the second
\* of the packet is greater than that of the last decoded packet, that packet
\* existing and not being stamped 0.000000; a gap event carrying the
\* difference minus one follows iff the difference exceeds 1
C34_EmitsAfterDecoded ==
    [][(AtDecodedPacket /\ pc' # pc) =>
          NewEvents = ClaimedEvents(
                          /\ DecodedBefore # {}
                          /\ cap.tape[Last(DecodedBefore)].ts # TimestampDefault,
                          IF DecodedBefore = {} THEN 0
                          ELSE cap.tape[Last(DecodedBefore)].ts.secs,
                          packet_res.packet.ts.secs)]_vars

\* a gap of three seconds has been announced after a snapshot, and a packet
\* of the same second as its predecessor has gone by without an emission
C34_Witness ==
    /\ cs.kind = "File"
    /\ cap.pos = 3 /\ pc = "lock"
    /\ cap.tape[1].ts.secs = 1 /\ cap.tape[2].ts.secs = 4 /\ cap.tape[3].ts.secs = 4
    /\ [i \in DOMAIN events |-> Shape(events[i])]
           = <<<<"traffic_update", FALSE, 0>>, <<"offline_gap", FALSE, 2>>>>

(***************************************************************************)
(* Host accounting around the moment of resolution                         *)
(***************************************************************************)

\* the fieldwise sum of the DataInfo f[x], x in S
SumData(f, S) ==
    [incoming_packets |-> SumOver([x \in S |-> f[x].incoming_packets], S),
     outgoing_packets |-> SumOver([x \in S |-> f[x].outgoing_packets], S),
     incoming_bytes |-> SumOver([x \in S |-> f[x].incoming_bytes], S),
     outgoing_bytes |-> SumOver([x \in S |-> f[x].outgoing_bytes], S)]

\* the addresses the packets gone through the ledger were looked up for
LookedUp ==
    {get_address_to_lookup(KeyOf(i), DirectionOf(i)) :
        i \in {j \in 1..LedgerLen : HasKey(j)}}

\* the packets that are through the update of the hosts map too
HostsLen == IF pc = "hosts" THEN LedgerLen - 1 ELSE LedgerLen

\* what the resolution threads of an address took out of the ledger for its
\* HostMessage
HandedOver(a) ==
    LET T == {t \in TasksFor(a) : tasks[t].pc \in {"push", "done"}}
    IN SumData([t \in T |-> tasks[t].other_data], T)

\* what the hosts map has held for a host: in the snapshots emitted before
\* the end of the source, which drained it, and now
SnapshotsWith(h) ==
    {i \in DOMAIN events :
        /\ events[i].name = "traffic_update" /\ ~events[i].is_final
        /\ h \in DOMAIN events[i].info_traffic.hosts}

InHostsMap(h) ==
    refresh(SumData([i \in SnapshotsWith(h) |-> events[i].info_traffic.hosts[h].data_info],
                    SnapshotsWith(h)),
            IF h \in DOMAIN info_traffic_msg.hosts
            THEN info_traffic_msg.hosts[h].data_info ELSE DataInfoDefault)

\* the addresses resolved to a host
ResolvedTo(h) ==
    {a \in ResolvedAddresses : resolutions_state.addresses_resolved[a] = h}

\* C35: every keyed packet is counted once for its address to look up: while
\* the address is not resolved, in the waiting DataInfo of the address; once it
\* is, either in the DataInfo its resolution thread took for the HostMessage
\* or in the hosts entry of its Host, whatever the interleaving of the capture
\* thread and the resolution threads
C35_CountedOnce ==
    /\ \A a \in LookedUp \ ResolvedAddresses :
          /\ a \in WaitingAddresses
          /\ resolutions_state.addresses_waiting_resolution[a]
                = SumOfPackets(a, LedgerLen)
          /\ HandedOver(a) = DataInfoDefault
    /\ \A h \in Range(resolutions_state.addresses_resolved) :
          SumData([a \in ResolvedTo(h) |-> SumOfPackets(a, HostsLen)], ResolvedTo(h))
             = refresh(SumData([a \in ResolvedTo(h) |-> HandedOver(a)], ResolvedTo(h)),
                       InHostsMap(h))

\* packets of one address on both sides of its resolution: one handed over
\* with the HostMessage, one counted in the hosts map
C35_Witness ==
    \E a \in ResolvedAddresses :
        /\ tot_packets(HandedOver(a)) >= 1
        /\ tot_packets(InHostsMap(resolutions_state.addresses_resolved[a])) >= 1
        /\ pc = "next"

(***************************************************************************)
(* The totals, the flows and the services                                  *)
(***************************************************************************)

\* the capture thread is not in the middle of a keyed packet
BetweenPackets == pc \notin {"lock", "ledger", "spawn", "hosts"}

\* a flow as a DataInfo: its packets and bytes in its direction
FlowData(info) ==
    add_packets(DataInfoDefault, info.transmitted_packets, info.transmitted_bytes,
                info.traffic_direction)

\* C36: after every fully processed packet the totals of tot_data_info are
\* the sums over all flows of transmitted_packets and transmitted_bytes and
\* the sums over all services of their packets and bytes, in each direction:
\* a keyed packet is added once to its flow, once to the service of its flow
\* and once to the totals, with the same bytes and direction
C36_TotalsAgree ==
    BetweenPackets =>
        /\ info_traffic_msg.tot_data_info
              = SumData([k \in DOMAIN info_traffic_msg.map |->
                            FlowData(info_traffic_msg.map[k])],
                        DOMAIN info_traffic_msg.map)
        /\ info_traffic_msg.tot_data_info
              = SumData(info_traffic_msg.services, DOMAIN info_traffic_msg.services)

\* two packets of two flows and two services have been processed
C36_Witness ==
    /\ pc = "next"
    /\ Cardinality(DOMAIN info_traffic_msg.map) = 2
    /\ Cardinality(DOMAIN info_traffic_msg.services) = 2
    /\ tot_packets(info_traffic_msg.tot_data_info) = 2
    /\ info_traffic_msg.tot_data_info.outgoing_bytes > 0
    /\ info_traffic_msg.tot_data_info.incoming_bytes > 0

(***************************************************************************)
(* The histograms of a flow                                                *)
(***************************************************************************)

\* the packets of the files replayed: two ICMP types and two ARP operations
\* between the same addresses, TCP, UDP, and an ICMP packet of a later second
HistogramPackets ==
    {[decoded |-> TRUE, headers |-> h, ts |-> [secs |-> 1, usecs |-> 0]] :
        h \in {Headers(LinkNone, NetIpv4(RemoteA, LocalIp, 84), TransportIcmpv4("EchoReply")),
               Headers(LinkNone, NetIpv4(RemoteA, LocalIp, 84), TransportIcmpv4("EchoRequest")),
               Headers(LinkEthernet2,
                       NetArp("IPV4", <<192, 168, 1, 10>>, <<192, 168, 1, 1>>, 28, "Request"),
                       TransportNone),
               Headers(LinkEthernet2,
                       NetArp("IPV4", <<192, 168, 1, 10>>, <<192, 168, 1, 1>>, 28, "Reply"),
                       TransportTcp(50000, 443)),
               Headers(LinkEthernet2, NetIpv4(LocalIp, RemoteA, 60), TransportTcp(50000, 443)),
               Headers(LinkEthernet2, NetIpv4(LocalIp, RemoteA, 60), TransportUdp(50000, 53))}}
    \cup {[decoded |-> TRUE,
           headers |-> Headers(LinkNone, NetIpv4(RemoteA, LocalIp, 84),
                               TransportIcmpv4("EchoReply")),
           ts |-> [secs |-> 3, usecs |-> 0]]}

\* a file of MaxConversation packets, read without geo databases
InitHistogram ==
    /\ cs = [kind |-> "File", addresses |-> <<>>]
    /\ mmdb_readers = "None"
    /\ cap \in {[tape |-> tape, pos |-> 0, eof |-> FALSE] :
                   tape \in [1..MaxConversation -> HistogramPackets]}
    /\ pc = "next"
    /\ packet_res = NoPacket
    /\ first_packet_ticks = FALSE
    /\ info_traffic_msg = InfoTrafficDefault
    /\ loc = LocDefault
    /\ resolutions_state = LedgerDefault
    /\ ledger_lock = {}
    /\ hosts_lock = {}
    /\ new_hosts_to_send = <<>>
    /\ tasks = <<>>
    /\ resolver = EmptyMap
    /\ events = <<>>
    /\ interval_start = 0
    /\ first_run = [done |-> FALSE, counters |-> <<>>]
    /\ call = NoCall
    /\ InitMod

\* the steps of a capture of a file whose packets all have a key
NextKeyed ==
    \/ NextPacket
    \/ MatchNoMorePackets \/ MatchKey
    \/ CaptureLock \/ LedgerFirst \/ LedgerWaiting \/ LedgerResolved
    \/ CaptureSpawn \/ CaptureHosts \/ FinalBatch
    \/ \E t \in DOMAIN tasks : TaskStep(t)

SpecHistogram == InitHistogram /\ [][NextKeyed]_vars

\* the sum of the counts of a histogram
HistogramSum(hist) == SumOver(hist, DOMAIN hist)

\* C37: for every flow of the map, an ICMP flow has the counts of icmp_types
\* sum to transmitted_packets and no arp_types, an ARP flow has the counts of
\* arp_types sum to transmitted_packets and no icmp_types, a TCP or UDP flow
\* has neither
C37_Histograms ==
    \A k \in DOMAIN info_traffic_msg.map :
        LET info == info_traffic_msg.map[k]
        IN /\ k.protocol = "ICMP" =>
                 /\ HistogramSum(info.icmp_types) = info.transmitted_packets
                 /\ DOMAIN info.arp_types = {}
           /\ k.protocol = "ARP" =>
                 /\ HistogramSum(info.arp_types) = info.transmitted_packets
                 /\ DOMAIN info.icmp_types = {}
           /\ k.protocol \in {"TCP", "UDP"} =>
                 /\ DOMAIN info.icmp_types = {}
                 /\ DOMAIN info.arp_types = {}
           /\ k.protocol \in {"ICMP", "ARP", "TCP", "UDP"}

\* an ARP flow of two operations next to a TCP flow
C37_Witness ==
    /\ pc = "next"
    /\ \E k \in DOMAIN info_traffic_msg.map :
          /\ k.protocol = "ARP"
          /\ DOMAIN info_traffic_msg.map[k].arp_types = {"Request", "Reply"}
          /\ info_traffic_msg.map[k].transmitted_packets = 2
    /\ \E k \in DOMAIN info_traffic_msg.map : k.protocol = "TCP"

\* an ICMP flow of two packets of one type and one of another
IcmpFlowCounted ==
    \E k \in DOMAIN info_traffic_msg.map :
        /\ k.protocol = "ICMP"
        /\ Cardinality(DOMAIN info_traffic_msg.map[k].icmp_types) = 2
        /\ info_traffic_msg.map[k].transmitted_packets = 3


(***************************************************************************)
(* The two locks, one step per lock() and one per release                  *)
(***************************************************************************)
\* the capture thread has reached a statement that locks new_hosts_to_send:
\* the snapshot of a live tick, the snapshot of an offline packet, the final
\* snapshot, the batch of pending hosts
EmissionDue ==
    \/ pc = "emit_live" /\ first_packet_ticks /\ Len(events) < MaxTicks
    \/ /\ pc = "match" /\ packet_res.tag = "Ok" /\ packet_res.packet.decoded
       /\ PacketHead(packet_res.packet).emits
    \/ pc = "match" /\ packet_res.tag = "NoMorePackets"
    \/ pc = "wait" /\ Running = {}

\* new_hosts_to_send.lock() of the capture thread returns: the rest of the
\* statement (drain, emit_all, release) is the step that follows
CaptureHostsLock ==
    /\ EmissionDue
    /\ hosts_lock = {}
    /\ hosts_lock' = {CaptureThread}
    /\ UNCHANGED <<call, mod_vars, first_run, cs, mmdb_readers, cap, pc, packet_res,
                   first_packet_ticks, info_traffic_msg, loc, resolutions_state,
                   ledger_lock, new_hosts_to_send, tasks, resolver, events,
                   interval_start>>

\* new_hosts_to_send.lock() of a task returns: the push and the release follow
TaskHostsLock(t) ==
    /\ tasks[t].pc = "push"
    /\ hosts_lock = {}
    /\ hosts_lock' = {t}
    /\ UNCHANGED <<call, mod_vars, first_run, cs, mmdb_readers, cap, pc, packet_res,
                   first_packet_ticks, info_traffic_msg, loc, resolutions_state,
                   ledger_lock, new_hosts_to_send, tasks, resolver, events,
                   interval_start>>

\* the steps of a thread, lock() of new_hosts_to_send included
StepOf(thread) ==
    IF thread = CaptureThread THEN CaptureStep \/ CaptureHostsLock
    ELSE TaskStep(thread) \/ TaskHostsLock(thread)

NextLocks ==
    \/ CaptureStep
    \/ CaptureHostsLock
    \/ \E t \in DOMAIN tasks : TaskStep(t)
    \/ \E t \in DOMAIN tasks : TaskHostsLock(t)

SpecLocks == Init /\ [][NextLocks]_vars

\* the threads of the capture
Threads == {CaptureThread} \cup DOMAIN tasks

\* the threads blocked in a lock() of the ledger, of the new hosts
WaitingLedger ==
    {thread \in Threads : /\ thread \notin ledger_lock
                          /\ IF thread = CaptureThread THEN pc = "lock"
                             ELSE tasks[thread].pc = "lock"}
WaitingHosts ==
    {thread \in Threads : /\ thread \notin hosts_lock
                          /\ IF thread = CaptureThread THEN EmissionDue
                             ELSE tasks[thread].pc = "push"}

\* C38: no thread ever holds the ledger lock and the new-hosts lock at the
\* same time, each lock has one holder at most, and a thread that holds a
\* lock is never waiting for the other one: its next step, the one that
\* releases the lock, can always be taken, so no cycle of waiting threads
\* exists and no thread blocks forever on a lock
C38_NeverBothLocks ==
    /\ ledger_lock \cap hosts_lock = {}
    /\ Cardinality(ledger_lock) <= 1
    /\ Cardinality(hosts_lock) <= 1
    /\ \A thread \in ledger_lock : thread \notin WaitingHosts
    /\ \A thread \in hosts_lock : thread \notin WaitingLedger
    /\ \A thread \in ledger_lock \cup hosts_lock : ENABLED StepOf(thread)

\* both locks are held, by two threads, while a third thread is blocked in
\* a lock()
C38_Witness ==
    /\ ledger_lock # {}
    /\ hosts_lock # {}
    /\ (WaitingLedger \cup WaitingHosts) \ (ledger_lock \cup hosts_lock) # {}

\* the capture thread holds the ledger while a task holds the new hosts
CaptureAndTaskHold ==
    /\ CaptureThread \in ledger_lock
    /\ \E t \in DOMAIN tasks : t \in hosts_lock

(***************************************************************************)
(* What get_traffic_data returns                                           *)
(***************************************************************************)
\* a step of get_traffic_data that received a value from the channel
Received ==
    /\ CAPTURE_CHANNEL # None
    /\ CAPTURE_CHANNEL' = CAPTURE_CHANNEL
    /\ Len(channels'[CAPTURE_CHANNEL]) < Len(channels[CAPTURE_CHANNEL])

\* the value the capture thread sent last on the registered channel
LatestSent == channels[CAPTURE_CHANNEL][Len(channels[CAPTURE_CHANNEL])]

\* C39: get_traffic_data returns the latest TrafficData sent by the capture
\* thread: when several updates are queued on the channel, the value
\* returned is the most recently sent one
C39_ReturnsLatest ==
    [][Received => returned'.data = LatestSent]_vars

\* what the code does: the values come out in the order they were sent, one
\* per call, the oldest queued one first, and the later ones stay queued
ReturnsOldest ==
    [][Received => /\ returned'.data = Head(channels[CAPTURE_CHANNEL])
                   /\ channels'[CAPTURE_CHANNEL] = Tail(channels[CAPTURE_CHANNEL])]_vars

\* a call has returned the first of two queued updates: the counters it
\* reports are behind those of the update still queued
StaleReturned ==
    /\ returned.command = "get_traffic_data"
    /\ CAPTURE_CHANNEL # None
    /\ channels[CAPTURE_CHANNEL] # <<>>
    /\ returned.data.total_packets >= 1
    /\ returned.data.total_packets < Head(channels[CAPTURE_CHANNEL]).total_packets

====
